---- MODULE Spec2Model ----
(***************************************************************************)
(* Payment state reconciliation of be_klinik: the Express handlers of      *)
(* routes/transaction.js and routes/booking.js over the four Firestore     *)
(* collections orders, tagihan, transactions and bookings, and the         *)
(* Midtrans provider they call.  Every await of a handler is one step of   *)
(* a request, so requests interleave exactly where the event loop lets     *)
(* them.                                                                   *)
(***************************************************************************)
EXTENDS Integers, FiniteSets, Sequences, TLC

(* ------------------------------ bounds --------------------------------- *)
\* number of HTTP requests of one behaviour (each slot serves one request)
MaxReqs == 2
\* number of requests the server handles at the same time
MaxInFlight == 2
\* number of snap.createTransaction calls the provider accepts per order
MaxCreates == 2
\* number of one-second windows of the status check limiter
MaxWindows == 2

Reqs == 1..MaxReqs
Orders == {"ORD1"}
Bookings == {"B1"}
Users == {"u1", "u2"}
\* the addresses requests come from (req.ip)
Ips == {"ip1", "ip2"}

(* ------------------------- values of the code -------------------------- *)
\* a field a document does not have (JavaScript undefined)
Undef == "undefined"
\* no snap token / no URL
NoToken == 0
\* the string `https://app.midtrans.com/snap/v2/vtweb/${undefined}`
VtwebOfUndefined == -1

RecognizedStatuses == {"capture", "settlement", "pending", "cancel", "deny", "expire"}
\* "authorize" (a pre-authorised card payment) stands for every
\* transaction_status outside the six mapped ones
ProviderStatuses == RecognizedStatuses \cup {"authorize"}

VARIABLES
    orders,         \* collection 'orders', keyed by orderId
    tagihan,        \* collection 'tagihan', keyed by orderId
    transactions,   \* collection 'transactions', keyed by orderId
    bookings,       \* collection 'bookings', keyed by bookingId
    midtrans,       \* transaction_status the provider holds per order, "none" = 404
    createCalls,    \* snap.createTransaction calls the provider received per order
    snapTokens,     \* tokens the provider issued per order (tokens are 1..snapTokens[o])
    ignoreUndefinedProperties,  \* Firestore setting of config/firebase
    now,            \* the one-second window of statusCheckLimiter the clock is in
    hits,           \* GET /check-status requests the limiter counted per address
    req             \* the requests: kind, position, locals and response

vars == <<orders, tagihan, transactions, bookings, midtrans, createCalls,
          snapTokens, ignoreUndefinedProperties, now, hits, req>>

limiter == <<now, hits>>
store == <<orders, tagihan, transactions, bookings>>
provider == <<midtrans, createCalls, snapTokens>>

(* ------------------------------ documents ------------------------------ *)
NoOrder == [exists |-> FALSE, bookingId |-> Undef, userId |-> Undef,
            status |-> Undef, paymentStatus |-> Undef]

NoTagihan == [exists |-> FALSE, bookingId |-> Undef, userId |-> Undef,
              status |-> Undef]

NoTransaction == [exists |-> FALSE, userId |-> Undef, status |-> Undef,
                  paymentStatus |-> Undef, tagihanStatus |-> Undef,
                  snap_token |-> NoToken, redirect_url |-> NoToken,
                  payment_url |-> NoToken]

NoBooking == [exists |-> FALSE, pasienId |-> Undef, status |-> Undef,
              paymentStatus |-> Undef, tagihanStatus |-> Undef]

\* the request before it arrives
IdleReq == [kind |-> "none", pc |-> "idle", uid |-> Undef, oid |-> Undef,
            bid |-> Undef, st |-> Undef,
            status |-> Undef, paymentStatus |-> Undef, tagihanStatus |-> Undef,
            isLocalStatus |-> TRUE, madeOrder |-> FALSE, madeTagihan |-> FALSE,
            tok |-> NoToken, red |-> NoToken, caught |-> Undef,
            ip |-> Undef, at |-> 0, given |-> {},
            code |-> 0, success |-> Undef, err |-> Undef, data |-> {}]

(* ---------------------------- Firestore -------------------------------- *)
\* a field written with `undefined` keeps its value when
\* ignoreUndefinedProperties is set (otherwise the write throws, see Rejects)
Upd(old, new) == IF new = Undef THEN old ELSE new

\* the same for a token or URL field
UpdTok(old, new) == IF new = NoToken THEN old ELSE new

\* Firestore refuses a write that carries an undefined value
Rejects(hasUndefined) == ~ignoreUndefinedProperties /\ hasUndefined

Join(a, b) == [f \in DOMAIN a \cup DOMAIN b |-> IF f \in DOMAIN b THEN b[f] ELSE a[f]]

Merge(rec, upd) == [f \in DOMAIN rec |-> IF f \in DOMAIN upd THEN upd[f] ELSE rec[f]]

\* the two routes Midtrans can be told to notify: POST /api/notification and
\* the forwarder POST /api/notification/midtrans in front of it
WebhookKinds == {"notification", "notification/midtrans"}

\* the forwarder's answer to the answer c of the POST /api/notification it
\* fetched: 200 {status: 'OK'} when response.ok, else 500
\* a forwarder that acknowledges the notification whatever the handler said
MidtransForwarder_AlwaysOk(c) ==
    IF c \in 200..599
    THEN [code |-> 200, err |-> Undef]
    ELSE [code |-> 500, err |-> "Internal server error"]

MidtransForwarder(c) ==
    IF c \in 200..299
    THEN [code |-> 200, err |-> Undef]
    ELSE [code |-> 500, err |-> "Internal server error"]

\* the `success` field every res.json of the two routers carries: true with a
\* 2xx status, false with a 4xx / 5xx status
Success(c) == IF c \in 200..299 THEN "true" ELSE "false"

\* what stays of a request once it is answered: the request itself (for the
\* webhook with the transaction_status of its notification, for the PATCH of
\* a Booking with the two fields of its body) and the body of its answer; the locals die with the handler.  A forwarded notification is
\* answered by the forwarder.
Answered(q, c, body) ==
    Merge(Merge(IdleReq, [kind |-> q.kind, oid |-> q.oid,
                          st |-> IF q.kind \in WebhookKinds THEN q.st ELSE Undef,
                          uid |-> IF q.kind \in {"check-status", "order"} THEN q.uid ELSE Undef,
                          ip |-> q.ip, at |-> q.at, given |-> q.given,
                          status |-> IF q.kind = "bookings/status" THEN q.status ELSE Undef,
                          paymentStatus |-> IF q.kind = "bookings/status"
                                            THEN q.paymentStatus ELSE Undef]),
          IF q.kind = "notification/midtrans"
          THEN Join(MidtransForwarder(c), [pc |-> "done"])
          ELSE Join(body, [pc |-> "done", code |-> c, success |-> Success(c)]))

\* res.status(code).json({success: false, error: e}); a bare success answer
\* has no error text
Respond(r, c, e) == req' = [req EXCEPT ![r] = Answered(@, c, [err |-> e])]

\* res.status(code).json({success: true, data: body})
RespondWith(r, c, body) == req' = [req EXCEPT ![r] = Answered(@, c, body)]

\* the request moves to its next await, with the locals it assigned
Goto(r, next, locals) == req' = [req EXCEPT ![r] = Merge(Merge(@, locals), [pc |-> next])]

(* ------------------------- the status mappings ------------------------- *)
\* the webhook's mapping with 'expire' missing from the cancelled statuses
MapNotification_NoExpire(transactionStatus, status, paymentStatus, tagihanStatus) ==
    IF transactionStatus = "capture" \/ transactionStatus = "settlement"
    THEN [status |-> "confirmed", paymentStatus |-> "Berhasil", tagihanStatus |-> "Berhasil"]
    ELSE IF transactionStatus = "pending"
    THEN [status |-> "pending", paymentStatus |-> "unpaid", tagihanStatus |-> "unpaid"]
    ELSE IF transactionStatus \in {"cancel", "deny"}
    THEN [status |-> "cancelled", paymentStatus |-> "failed", tagihanStatus |-> "failed"]
    ELSE [status |-> status, paymentStatus |-> paymentStatus, tagihanStatus |-> tagihanStatus]

\* POST /notification: transaction_status -> status, paymentStatus, tagihanStatus
MapNotification(transactionStatus, status, paymentStatus, tagihanStatus) ==
    IF transactionStatus = "capture" \/ transactionStatus = "settlement"
    THEN [status |-> "confirmed", paymentStatus |-> "Berhasil", tagihanStatus |-> "Berhasil"]
    ELSE IF transactionStatus = "pending"
    THEN [status |-> "pending", paymentStatus |-> "unpaid", tagihanStatus |-> "unpaid"]
    ELSE IF transactionStatus \in {"cancel", "deny", "expire"}
    THEN [status |-> "cancelled", paymentStatus |-> "failed", tagihanStatus |-> "failed"]
    ELSE [status |-> status, paymentStatus |-> paymentStatus, tagihanStatus |-> tagihanStatus]

\* a copy of the mapping that waits for the settlement of a captured payment
MapCheckStatus_CaptureUnsettled(transStatus, status, paymentStatus, tagihanStatus) ==
    IF transStatus = "settlement"
    THEN [status |-> "confirmed", paymentStatus |-> "Berhasil", tagihanStatus |-> "Berhasil"]
    ELSE IF transStatus = "pending" \/ transStatus = "capture"
    THEN [status |-> "pending", paymentStatus |-> "unpaid", tagihanStatus |-> "unpaid"]
    ELSE IF transStatus \in {"cancel", "deny", "expire"}
    THEN [status |-> "cancelled", paymentStatus |-> "failed", tagihanStatus |-> "failed"]
    ELSE [status |-> status, paymentStatus |-> paymentStatus, tagihanStatus |-> tagihanStatus]

\* a copy of the mapping that has lost 'expire'
MapCheckStatus_NoExpire(transStatus, status, paymentStatus, tagihanStatus) ==
    IF transStatus = "capture" \/ transStatus = "settlement"
    THEN [status |-> "confirmed", paymentStatus |-> "Berhasil", tagihanStatus |-> "Berhasil"]
    ELSE IF transStatus = "pending"
    THEN [status |-> "pending", paymentStatus |-> "unpaid", tagihanStatus |-> "unpaid"]
    ELSE IF transStatus \in {"cancel", "deny"}
    THEN [status |-> "cancelled", paymentStatus |-> "failed", tagihanStatus |-> "failed"]
    ELSE [status |-> status, paymentStatus |-> paymentStatus, tagihanStatus |-> tagihanStatus]

\* GET /check-status: the handler's own copy of the mapping
MapCheckStatus(transStatus, status, paymentStatus, tagihanStatus) ==
    IF transStatus = "capture" \/ transStatus = "settlement"
    THEN [status |-> "confirmed", paymentStatus |-> "Berhasil", tagihanStatus |-> "Berhasil"]
    ELSE IF transStatus = "pending"
    THEN [status |-> "pending", paymentStatus |-> "unpaid", tagihanStatus |-> "unpaid"]
    ELSE IF transStatus \in {"cancel", "deny", "expire"}
    THEN [status |-> "cancelled", paymentStatus |-> "failed", tagihanStatus |-> "failed"]
    ELSE [status |-> status, paymentStatus |-> paymentStatus, tagihanStatus |-> tagihanStatus]

(* --------------------------- the write batch --------------------------- *)
\* a commit that does not notice a missing Booking
BatchCanCommit_NoBooking(o, b) ==
    /\ transactions[o].exists
    /\ orders[o].exists
    /\ tagihan[o].exists

\* batch.update on a missing document fails the whole commit
BatchCanCommit(o, b) ==
    /\ transactions[o].exists
    /\ orders[o].exists
    /\ tagihan[o].exists
    /\ bookings[b].exists

TransactionUpdated(doc, m) ==
    IF doc.exists
    THEN [doc EXCEPT !.status = Upd(@, m.status),
                     !.paymentStatus = Upd(@, m.paymentStatus),
                     !.tagihanStatus = Upd(@, m.tagihanStatus)]
    ELSE doc

OrderUpdated(doc, m) ==
    IF doc.exists
    THEN [doc EXCEPT !.status = Upd(@, m.status),
                     !.paymentStatus = Upd(@, m.paymentStatus)]
    ELSE doc

TagihanUpdated(doc, m) ==
    IF doc.exists
    THEN [doc EXCEPT !.status = Upd(@, m.tagihanStatus)]
    ELSE doc

\* a booking update that leaves paymentStatus out
BookingUpdated_NoPaymentStatus(doc, m) ==
    IF doc.exists
    THEN [doc EXCEPT !.status = Upd(@, m.status),
                     !.tagihanStatus = Upd(@, m.tagihanStatus)]
    ELSE doc

BookingUpdated(doc, m) ==
    IF doc.exists
    THEN [doc EXCEPT !.status = Upd(@, m.status),
                     !.paymentStatus = Upd(@, m.paymentStatus),
                     !.tagihanStatus = Upd(@, m.tagihanStatus)]
    ELSE doc

\* a batch from which the update of the Billing Statement is missing
BatchCommit_NoTagihan(o, b, m) ==
    /\ transactions' = [transactions EXCEPT ![o] = TransactionUpdated(@, m)]
    /\ orders' = [orders EXCEPT ![o] = OrderUpdated(@, m)]
    /\ tagihan' = tagihan
    /\ bookings' = [bookings EXCEPT ![b] = BookingUpdated(@, m)]

\* await batch.commit(): the four updates of one order, applied together
BatchCommit(o, b, m) ==
    /\ transactions' = [transactions EXCEPT ![o] = TransactionUpdated(@, m)]
    /\ orders' = [orders EXCEPT ![o] = OrderUpdated(@, m)]
    /\ tagihan' = [tagihan EXCEPT ![o] = TagihanUpdated(@, m)]
    /\ bookings' = [bookings EXCEPT ![b] = BookingUpdated(@, m)]

Triple(l) == [status |-> l.status, paymentStatus |-> l.paymentStatus,
              tagihanStatus |-> l.tagihanStatus]

HasUndefined(m) == m.status = Undef \/ m.paymentStatus = Undef \/ m.tagihanStatus = Undef

(* ----------------------------- the provider ---------------------------- *)
\* the life cycle of a transaction at the provider
ProviderNext(s) ==
    CASE s = "pending" -> {"authorize", "capture", "settlement", "cancel", "deny", "expire"}
      [] s = "authorize" -> {"capture", "cancel"}
      [] s = "capture" -> {"settlement", "cancel"}
      [] OTHER -> {}

\* the customer pays, the payment expires, ... : the provider's status moves
ProviderAdvance(o) ==
    /\ midtrans[o] # "none"
    /\ \E s \in ProviderNext(midtrans[o]) : midtrans' = [midtrans EXCEPT ![o] = s]
    /\ UNCHANGED <<store, createCalls, snapTokens, ignoreUndefinedProperties, limiter, req>>

\* snap.createTransaction(payload) as the provider sees it; res is its answer
SnapCreateOutcomes == {"ok", "malformed", "fail"}

SnapCreate(o, res) ==
    /\ createCalls[o] < MaxCreates
    /\ createCalls' = [createCalls EXCEPT ![o] = @ + 1]
    /\ snapTokens' = [snapTokens EXCEPT ![o] = IF res = "ok" THEN @ + 1 ELSE @]
    /\ midtrans' = [midtrans EXCEPT ![o] = IF res # "fail" /\ @ = "none" THEN "pending" ELSE @]

\* the token / redirect URL of the response to a create call
IssuedToken(o, res) == IF res = "ok" THEN snapTokens[o] + 1 ELSE NoToken

\* payment_url as /create-transaction builds it from the token
Vtweb(t) == IF t = NoToken THEN VtwebOfUndefined ELSE t

(* --------------------------- request arrival --------------------------- *)
Kinds == {"notification", "notification/midtrans", "check-status",
          "create-transaction", "create-order", "create", "payment-url"}

\* the handlers that read req.user.uid
OwnerCheckingKinds == {"create-transaction", "create-order"}

\* the routes behind verifyToken that create a provider transaction for the
\* caller or hand its token out
CallerKinds == {"create-transaction", "create-order", "create", "payment-url", "order"}

FirstPc(kind) ==
    CASE kind = "notification" -> "nf_verify"
      [] kind = "notification/midtrans" -> "fw_fetch"
      [] kind = "check-status" -> "cs_getTransaction"
      [] kind = "create-transaction" -> "ct_getOrder"
      [] kind = "create-order" -> "co_getOrder"
      [] kind = "create" -> "cr_getOrder"
      [] kind = "payment-url" -> "pu_getTransaction"
      [] kind = "order" -> "or_getTransaction"

InFlight == {q \in Reqs : req[q].pc \notin {"idle", "done"}}

\* the body fields POST /create-transaction insists on
CtRequired == {"bookingId", "orderId", "amount", "customer_details"}

\* the keys of `data` in the 201 answer of POST /create-transaction
CtData == {"order", "tagihan", "transaction"}

\* a request arrives; verifyToken has put the caller's uid on it (the webhook
\* routes have no verifyToken; the uid of a poll, which its handler never
\* reads, is left out).  Slots are taken in order; limit is the number of
\* requests the server handles at the same time.
Arrive(r, kinds, limit) ==
    /\ req[r].pc = "idle"
    /\ IF r = 1 THEN TRUE ELSE req[r - 1].pc # "idle"
    /\ Cardinality(InFlight) < limit
    /\ \E k \in kinds, u \in Users, o \in Orders, b \in Bookings :
          /\ k \notin CallerKinds => u = "u1"
          /\ req' = [req EXCEPT ![r] = Merge(@,
                 [kind |-> k, pc |-> FirstPc(k), oid |-> o,
                  uid |-> IF k \in CallerKinds THEN u ELSE Undef,
                  given |-> IF k = "create-transaction" THEN CtRequired ELSE {},
                  bid |-> IF k \in {"create-transaction", "create-order"} THEN b ELSE Undef])]
    /\ UNCHANGED <<store, provider, ignoreUndefinedProperties, limiter>>

\* POST /create-transaction with a token verifyToken accepts and a body that
\* lacks (or has falsy) one of the required fields: answered 400 before the
\* first await
CtMissingFields(r, limit) ==
    /\ req[r].pc = "idle"
    /\ IF r = 1 THEN TRUE ELSE req[r - 1].pc # "idle"
    /\ Cardinality(InFlight) < limit
    /\ \E fields \in (SUBSET CtRequired) \ {CtRequired} :
          req' = [req EXCEPT ![r] =
                    Answered(Merge(@, [kind |-> "create-transaction", given |-> fields]),
                             400, [err |-> "Missing required fields"])]
    /\ UNCHANGED <<store, provider, ignoreUndefinedProperties, limiter>>

\* the routes behind verifyToken
ProtectedKinds == CallerKinds \cup {"check-status"}

\* verifyToken answering a request that carries no Authorization header
\* ('No token provided') or a token verifyIdToken refuses ('Invalid token'):
\* res.status(401).json({ error }), a body without a success field; the
\* handler and the limiter behind it never run
VerifyTokenRejects(r, kinds, limit) ==
    /\ req[r].pc = "idle"
    /\ IF r = 1 THEN TRUE ELSE req[r - 1].pc # "idle"
    /\ Cardinality(InFlight) < limit
    /\ \E k \in kinds \cap ProtectedKinds, o \in Orders,
          e \in {"No token provided", "Invalid token"} :
          req' = [req EXCEPT ![r] = Merge(@,
                    [kind |-> k, pc |-> "done", oid |-> o, code |-> 401, err |-> e])]
    /\ UNCHANGED <<store, provider, ignoreUndefinedProperties, limiter>>

\* max of statusCheckLimiter: requests an address may make per window
StatusCheckMax == 1

\* a limiter that lets a second request of the window through
TooMany_Max2(count) == count > StatusCheckMax + 1

\* the limiter's verdict on a request of an address with `count` requests
\* counted in the window, this one included
TooMany(count) == count > StatusCheckMax

\* GET /check-status/:orderId arrives from address i with the token of user
\* u: verifyToken passes it on, statusCheckLimiter counts it under req.ip and
\* either answers 429 with its message or calls the handler
StatusCheckLimiter(r, limit) ==
    /\ req[r].pc = "idle"
    /\ IF r = 1 THEN TRUE ELSE req[r - 1].pc # "idle"
    /\ Cardinality(InFlight) < limit
    /\ \E u \in Users, o \in Orders, i \in Ips :
          LET arrived == Merge(req[r], [kind |-> "check-status", oid |-> o, uid |-> u,
                                        ip |-> i, at |-> now])
          IN /\ hits' = [hits EXCEPT ![i] = @ + 1]
             /\ IF TooMany(hits[i] + 1)
                THEN req' = [req EXCEPT ![r] = Answered(arrived, 429,
                                [err |-> "Too many status check requests, please wait"])]
                ELSE req' = [req EXCEPT ![r] = Merge(arrived, [pc |-> FirstPc("check-status")])]
    /\ UNCHANGED <<store, provider, ignoreUndefinedProperties, now>>

\* windowMs (one second) is over: the limiter forgets its counts
WindowElapses ==
    /\ now < MaxWindows
    /\ now' = now + 1
    /\ hits' = [i \in Ips |-> 0]
    /\ UNCHANGED <<store, provider, ignoreUndefinedProperties, req>>

At(r, k, p) == req[r].kind = k /\ req[r].pc = p

\* the request is in the handler of POST /notification, called directly or
\* by the forwarder
AtWebhook(r, p) == req[r].kind \in WebhookKinds /\ req[r].pc = p

(* -------------------- POST /api/notification/midtrans ------------------ *)
\* await fetch(.../api/notification): the handler of POST /notification runs
\* on the forwarded body, or the fetch itself fails
ForwardFetch(r) ==
    /\ At(r, "notification/midtrans", "fw_fetch")
    /\ \/ Goto(r, "nf_verify", [pc |-> "nf_verify"])
       \/ Respond(r, 500, "Internal server error")
    /\ UNCHANGED <<store, provider, ignoreUndefinedProperties, limiter>>

(* -------------------------- POST /notification ------------------------- *)
\* catch (error): whatever was thrown, the answer is the same
NotifCatch(error) == [code |-> 500, err |-> "Failed to process notification"]

\* res.status(500).json(...) of the catch block
RespondCaught(r, error) == Respond(r, NotifCatch(error).code, NotifCatch(error).err)

\* await snap.transaction.notification(req.body)
NotifVerify(r) ==
    /\ AtWebhook(r, "nf_verify")
    /\ \/ /\ midtrans[req[r].oid] # "none"
          /\ Goto(r, "nf_getTransaction", [st |-> midtrans[req[r].oid]])
       \/ RespondCaught(r, "verification failed")
    /\ UNCHANGED <<store, provider, ignoreUndefinedProperties, limiter>>

\* a handler that acknowledges a notification it has no Transaction for
NotifGetTransaction_Acknowledges(r) ==
    /\ AtWebhook(r, "nf_getTransaction")
    /\ LET t == transactions[req[r].oid] IN
         IF ~t.exists
         THEN Respond(r, 200, Undef)
         ELSE Goto(r, "nf_getOrder", Triple(t))
    /\ UNCHANGED <<store, provider, ignoreUndefinedProperties, limiter>>

\* await transactionRef.get()
NotifGetTransaction(r) ==
    /\ AtWebhook(r, "nf_getTransaction")
    /\ LET t == transactions[req[r].oid] IN
         IF ~t.exists
         THEN RespondCaught(r, "Transaction document not found")
         ELSE Goto(r, "nf_getOrder", Triple(t))
    /\ UNCHANGED <<store, provider, ignoreUndefinedProperties, limiter>>

\* await orderRef.get(), then the mapping and the four batch.update calls
NotifGetOrder(r) ==
    /\ AtWebhook(r, "nf_getOrder")
    /\ LET o == orders[req[r].oid]
           m == MapNotification(req[r].st, req[r].status, req[r].paymentStatus,
                                req[r].tagihanStatus)
       IN IF ~o.exists
          THEN Respond(r, 404, "Order not found")
          ELSE IF Rejects(HasUndefined(m))
          THEN RespondCaught(r, "undefined value")
          ELSE Goto(r, "nf_commit", Join(m, [bid |-> o.bookingId]))
    /\ UNCHANGED <<store, provider, ignoreUndefinedProperties, limiter>>

\* a batch that writes the Booking with set(..., {merge: true}): the commit
\* needs the other three records only and creates a missing Booking
NotifCommit_SetsBooking(r) ==
    /\ AtWebhook(r, "nf_commit")
    /\ IF BatchCanCommit_NoBooking(req[r].oid, req[r].bid)
       THEN /\ transactions' = [transactions EXCEPT ![req[r].oid] =
                                    TransactionUpdated(@, Triple(req[r]))]
            /\ orders' = [orders EXCEPT ![req[r].oid] = OrderUpdated(@, Triple(req[r]))]
            /\ tagihan' = [tagihan EXCEPT ![req[r].oid] = TagihanUpdated(@, Triple(req[r]))]
            /\ bookings' = [bookings EXCEPT ![req[r].bid] =
                                BookingUpdated([@ EXCEPT !.exists = TRUE], Triple(req[r]))]
            /\ Respond(r, 200, Undef)
       ELSE /\ RespondCaught(r, "NOT_FOUND")
            /\ UNCHANGED store
    /\ UNCHANGED <<provider, ignoreUndefinedProperties, limiter>>

\* await batch.commit()
NotifCommit(r) ==
    /\ AtWebhook(r, "nf_commit")
    /\ IF BatchCanCommit(req[r].oid, req[r].bid)
       THEN /\ BatchCommit(req[r].oid, req[r].bid, Triple(req[r]))
            /\ Respond(r, 200, Undef)
       ELSE /\ RespondCaught(r, "NOT_FOUND")
            /\ UNCHANGED store
    /\ UNCHANGED <<provider, ignoreUndefinedProperties, limiter>>

(* ---------------------- GET /check-status/:orderId --------------------- *)
\* await transactionRef.get()
CheckGetTransaction(r) ==
    /\ At(r, "check-status", "cs_getTransaction")
    /\ LET t == transactions[req[r].oid] IN
         IF ~t.exists
         THEN Respond(r, 404, "Transaction not found")
         ELSE Goto(r, "cs_getOrder", Join(Triple(t), [tok |-> t.snap_token]))
    /\ UNCHANGED <<store, provider, ignoreUndefinedProperties, limiter>>

\* a poll that asks the provider whether or not the Transaction has a token
CheckGetOrder_AlwaysAsks(r) ==
    /\ At(r, "check-status", "cs_getOrder")
    /\ LET o == orders[req[r].oid] IN
         IF ~o.exists
         THEN Respond(r, 404, "Order not found")
         ELSE Goto(r, "cs_status", [bid |-> o.bookingId])
    /\ UNCHANGED <<store, provider, ignoreUndefinedProperties, limiter>>

\* await orderRef.get(); with a snap token the provider is asked next
CheckGetOrder(r) ==
    /\ At(r, "check-status", "cs_getOrder")
    /\ LET o == orders[req[r].oid] IN
         IF ~o.exists
         THEN Respond(r, 404, "Order not found")
         ELSE Goto(r, IF req[r].tok # NoToken THEN "cs_status" ELSE "cs_read",
                   [bid |-> o.bookingId])
    /\ UNCHANGED <<store, provider, ignoreUndefinedProperties, limiter>>

\* a poll that gives up when the provider's status query fails
CheckStatus_GivesUp(r) ==
    /\ At(r, "check-status", "cs_status")
    /\ \/ /\ midtrans[req[r].oid] # "none"
          /\ LET st == midtrans[req[r].oid]
                 m == MapCheckStatus(st, req[r].status, req[r].paymentStatus,
                                     req[r].tagihanStatus)
             IN Goto(r, IF Rejects(HasUndefined(m)) THEN "cs_read" ELSE "cs_commit",
                     Join(m, [st |-> st, isLocalStatus |-> FALSE]))
       \/ Respond(r, 500, "Failed to check status")
    /\ UNCHANGED <<store, provider, ignoreUndefinedProperties, limiter>>

\* await core.transaction.status(orderId), the mapping, the batch.update calls;
\* whatever throws is caught and the handler goes on to the final reads
CheckStatus(r) ==
    /\ At(r, "check-status", "cs_status")
    /\ \/ /\ midtrans[req[r].oid] # "none"
          /\ LET st == midtrans[req[r].oid]
                 m == MapCheckStatus(st, req[r].status, req[r].paymentStatus,
                                     req[r].tagihanStatus)
             IN Goto(r, IF Rejects(HasUndefined(m)) THEN "cs_read" ELSE "cs_commit",
                     Join(m, [st |-> st, isLocalStatus |-> FALSE]))
       \/ Goto(r, "cs_read", [st |-> Undef])
    /\ UNCHANGED <<store, provider, ignoreUndefinedProperties, limiter>>

\* a commit that updates the documents that exist and skips the missing ones
CheckCommit_SkipsMissing(r) ==
    /\ At(r, "check-status", "cs_commit")
    /\ BatchCommit(req[r].oid, req[r].bid, Triple(req[r]))
    /\ Goto(r, "cs_read", [pc |-> "cs_read"])
    /\ UNCHANGED <<provider, ignoreUndefinedProperties, limiter>>

\* await batch.commit(); a failed commit is caught as well
CheckCommit(r) ==
    /\ At(r, "check-status", "cs_commit")
    /\ IF BatchCanCommit(req[r].oid, req[r].bid)
       THEN BatchCommit(req[r].oid, req[r].bid, Triple(req[r]))
       ELSE UNCHANGED store
    /\ Goto(r, "cs_read", [pc |-> "cs_read"])
    /\ UNCHANGED <<provider, ignoreUndefinedProperties, limiter>>

\* await Promise.all of the three final reads, then res.json
CheckRead(r) ==
    /\ At(r, "check-status", "cs_read")
    /\ RespondWith(r, 200, Join(Triple(req[r]), [isLocalStatus |-> req[r].isLocalStatus]))
    /\ UNCHANGED <<store, provider, ignoreUndefinedProperties, limiter>>

(* ------------------------ POST /create-transaction --------------------- *)
NewOrder(b, u) == [exists |-> TRUE, bookingId |-> b, userId |-> u,
                   status |-> "pending", paymentStatus |-> Undef]

\* a billing statement created in the state of an unpaid bill
NewTagihan_Unpaid(b, u) == [exists |-> TRUE, bookingId |-> b, userId |-> u,
                            status |-> "unpaid"]

NewTagihan(b, u) == [exists |-> TRUE, bookingId |-> b, userId |-> u,
                     status |-> "pending"]

\* transactionData of /create-transaction
CtTransaction(u, tok, red) ==
    [exists |-> TRUE, userId |-> u, status |-> "pending",
     paymentStatus |-> Undef, tagihanStatus |-> Undef,
     snap_token |-> tok, redirect_url |-> red, payment_url |-> Vtweb(tok)]

\* transaction of /create-order
CoTransaction(u, tok, red) ==
    [exists |-> TRUE, userId |-> u, status |-> "pending",
     paymentStatus |-> Undef, tagihanStatus |-> Undef,
     snap_token |-> tok, redirect_url |-> red, payment_url |-> NoToken]

\* the document /create sets: no userId, no redirect_url
CrTransaction(tok, red) ==
    [exists |-> TRUE, userId |-> Undef, status |-> "pending",
     paymentStatus |-> "unpaid", tagihanStatus |-> "unpaid",
     snap_token |-> tok, redirect_url |-> NoToken, payment_url |-> red]

\* booking of POST /bookings
NewBooking(u) == [exists |-> TRUE, pasienId |-> u, status |-> "pending",
                  paymentStatus |-> "unpaid", tagihanStatus |-> Undef]

\* a handler that writes the Order of the request over the caller's own one
CtGetOrder_Overwrites(r) ==
    /\ At(r, "create-transaction", "ct_getOrder")
    /\ LET o == orders[req[r].oid] IN
         IF o.exists /\ o.userId # req[r].uid
         THEN Respond(r, 403, "Access denied")
         ELSE Goto(r, "ct_setOrder", [madeOrder |-> ~o.exists])
    /\ UNCHANGED <<store, provider, ignoreUndefinedProperties, limiter>>

\* await orderRef.get(): create-if-absent, else the owner check
CtGetOrder(r) ==
    /\ At(r, "create-transaction", "ct_getOrder")
    /\ LET o == orders[req[r].oid] IN
         IF ~o.exists
         THEN Goto(r, "ct_setOrder", [madeOrder |-> TRUE])
         ELSE IF o.userId # req[r].uid
         THEN Respond(r, 403, "Access denied")
         ELSE Goto(r, "ct_getTagihan", [madeOrder |-> FALSE])
    /\ UNCHANGED <<store, provider, ignoreUndefinedProperties, limiter>>

\* await orderRef.set(orderData)
CtSetOrder(r) ==
    /\ At(r, "create-transaction", "ct_setOrder")
    /\ orders' = [orders EXCEPT ![req[r].oid] = NewOrder(req[r].bid, req[r].uid)]
    /\ Goto(r, "ct_getTagihan", [pc |-> "ct_getTagihan"])
    /\ UNCHANGED <<tagihan, transactions, bookings, provider, ignoreUndefinedProperties, limiter>>

\* await tagihanRef.get()
CtGetTagihan(r) ==
    /\ At(r, "create-transaction", "ct_getTagihan")
    /\ IF ~tagihan[req[r].oid].exists
       THEN Goto(r, "ct_setTagihan", [madeTagihan |-> TRUE])
       ELSE Goto(r, "ct_status", [madeTagihan |-> FALSE])
    /\ UNCHANGED <<store, provider, ignoreUndefinedProperties, limiter>>

\* await tagihanRef.set(tagihanData)
CtSetTagihan(r) ==
    /\ At(r, "create-transaction", "ct_setTagihan")
    /\ tagihan' = [tagihan EXCEPT ![req[r].oid] = NewTagihan(req[r].bid, req[r].uid)]
    /\ Goto(r, "ct_status", [pc |-> "ct_status"])
    /\ UNCHANGED <<orders, transactions, bookings, provider, ignoreUndefinedProperties, limiter>>

\* await core.transaction.status(orderId): a found transaction is reused with
\* the snap_token / redirect_url fields of the answer (which it may not carry);
\* every error, 404 or not, leads on to the create call
CtStatus(r) ==
    /\ At(r, "create-transaction", "ct_status")
    /\ \/ /\ midtrans[req[r].oid] # "none"
          /\ \E t \in {snapTokens[req[r].oid], NoToken} :
                Goto(r, "ct_getTransaction", [tok |-> t, red |-> t])
       \/ Goto(r, "ct_create", [pc |-> "ct_create"])
    /\ UNCHANGED <<store, provider, ignoreUndefinedProperties, limiter>>

\* await snap.createTransaction(snapPayload): a failure is answered at once,
\* the answer of a success is taken as it is
CtCreate(r) ==
    /\ At(r, "create-transaction", "ct_create")
    /\ \E res \in SnapCreateOutcomes :
          /\ SnapCreate(req[r].oid, res)
          /\ IF res = "fail"
             THEN Respond(r, 500, "Failed to create payment transaction")
             ELSE Goto(r, "ct_getTransaction",
                       [tok |-> IssuedToken(req[r].oid, res),
                        red |-> IssuedToken(req[r].oid, res)])
    /\ UNCHANGED <<store, ignoreUndefinedProperties, limiter>>

\* await transactionRef.get()
CtGetTransaction(r) ==
    /\ At(r, "create-transaction", "ct_getTransaction")
    /\ IF transactions[req[r].oid].exists
       THEN Goto(r, "ct_updateTransaction", [pc |-> "ct_updateTransaction"])
       ELSE Goto(r, "ct_setTransaction", [pc |-> "ct_setTransaction"])
    /\ UNCHANGED <<store, provider, ignoreUndefinedProperties, limiter>>

\* await transactionRef.set(transactionData)
CtSetTransaction(r) ==
    /\ At(r, "create-transaction", "ct_setTransaction")
    /\ IF Rejects(req[r].tok = NoToken \/ req[r].red = NoToken)
       THEN /\ Respond(r, 500, "Failed to process transaction")
            /\ UNCHANGED transactions
       ELSE /\ transactions' = [transactions EXCEPT ![req[r].oid] =
                  CtTransaction(req[r].uid, req[r].tok, req[r].red)]
            /\ RespondWith(r, 201, [tok |-> req[r].tok, red |-> req[r].red, data |-> CtData])
    /\ UNCHANGED <<orders, tagihan, bookings, provider, ignoreUndefinedProperties, limiter>>

\* await transactionRef.update({snap_token, redirect_url, payment_url, ...})
CtUpdateTransaction(r) ==
    /\ At(r, "create-transaction", "ct_updateTransaction")
    /\ IF Rejects(req[r].tok = NoToken \/ req[r].red = NoToken)
          \/ ~transactions[req[r].oid].exists
       THEN /\ Respond(r, 500, "Failed to process transaction")
            /\ UNCHANGED transactions
       ELSE /\ transactions' = [transactions EXCEPT ![req[r].oid] =
                  [@ EXCEPT !.snap_token = UpdTok(@, req[r].tok),
                            !.redirect_url = UpdTok(@, req[r].red),
                            !.payment_url = Vtweb(req[r].tok)]]
            /\ RespondWith(r, 201, [tok |-> req[r].tok, red |-> req[r].red, data |-> CtData])
    /\ UNCHANGED <<orders, tagihan, bookings, provider, ignoreUndefinedProperties, limiter>>

(* --------------------------- GET /order/:orderId ----------------------- *)
\* await db.collection('transactions').doc(orderId).get(), then the owner
\* check on the Transaction
OrderGetTransaction(r) ==
    /\ At(r, "order", "or_getTransaction")
    /\ LET t == transactions[req[r].oid] IN
         IF ~t.exists
         THEN Respond(r, 404, "Order not found")
         ELSE IF t.userId # req[r].uid
         THEN Respond(r, 403, "Access denied")
         ELSE Goto(r, "or_getTagihan", [tok |-> t.snap_token, red |-> t.redirect_url])
    /\ UNCHANGED <<store, provider, ignoreUndefinedProperties, limiter>>

\* await db.collection('tagihan').where('orderId', '==', orderId).get(): the
\* answer carries the Transaction and the Billing Statement found, or null
OrderGetTagihan(r) ==
    /\ At(r, "order", "or_getTagihan")
    /\ RespondWith(r, 200, [tok |-> req[r].tok, red |-> req[r].red])
    /\ UNCHANGED <<store, provider, ignoreUndefinedProperties, limiter>>

(* --------------------------- POST /create-order ------------------------ *)
CoGetOrder(r) ==
    /\ At(r, "create-order", "co_getOrder")
    /\ LET o == orders[req[r].oid] IN
         IF ~o.exists
         THEN Goto(r, "co_setOrder", [madeOrder |-> TRUE])
         ELSE IF o.userId # req[r].uid
         THEN Respond(r, 403, "Access denied")
         ELSE Goto(r, "co_getTagihan", [madeOrder |-> FALSE])
    /\ UNCHANGED <<store, provider, ignoreUndefinedProperties, limiter>>

CoSetOrder(r) ==
    /\ At(r, "create-order", "co_setOrder")
    /\ orders' = [orders EXCEPT ![req[r].oid] = NewOrder(req[r].bid, req[r].uid)]
    /\ Goto(r, "co_getTagihan", [pc |-> "co_getTagihan"])
    /\ UNCHANGED <<tagihan, transactions, bookings, provider, ignoreUndefinedProperties, limiter>>

CoGetTagihan(r) ==
    /\ At(r, "create-order", "co_getTagihan")
    /\ IF ~tagihan[req[r].oid].exists
       THEN Goto(r, "co_setTagihan", [madeTagihan |-> TRUE])
       ELSE Goto(r, "co_getTransaction", [madeTagihan |-> FALSE])
    /\ UNCHANGED <<store, provider, ignoreUndefinedProperties, limiter>>

CoSetTagihan(r) ==
    /\ At(r, "create-order", "co_setTagihan")
    /\ tagihan' = [tagihan EXCEPT ![req[r].oid] = NewTagihan(req[r].bid, req[r].uid)]
    /\ Goto(r, "co_getTransaction", [pc |-> "co_getTransaction"])
    /\ UNCHANGED <<orders, transactions, bookings, provider, ignoreUndefinedProperties, limiter>>

\* await transactionRef.get(): an existing transaction of the caller is returned
CoGetTransaction(r) ==
    /\ At(r, "create-order", "co_getTransaction")
    /\ LET t == transactions[req[r].oid] IN
         IF ~t.exists
         THEN Goto(r, "co_create", [pc |-> "co_create"])
         ELSE IF t.userId # req[r].uid
         THEN Respond(r, 403, "Access denied")
         ELSE RespondWith(r, 200, [tok |-> t.snap_token, red |-> t.redirect_url])
    /\ UNCHANGED <<store, provider, ignoreUndefinedProperties, limiter>>

\* await snap.createTransaction(midtransPayload); a failure and an answer
\* without token or redirect URL both go to the clean-up
CoCreate(r) ==
    /\ At(r, "create-order", "co_create")
    /\ \E res \in SnapCreateOutcomes :
          /\ SnapCreate(req[r].oid, res)
          /\ IF res = "ok"
             THEN Goto(r, "co_setTransaction",
                       [tok |-> IssuedToken(req[r].oid, res),
                        red |-> IssuedToken(req[r].oid, res)])
             ELSE Goto(r, "co_deleteOrder", [caught |-> res])
    /\ UNCHANGED <<store, ignoreUndefinedProperties, limiter>>

\* await transactionRef.set(transaction)
CoSetTransaction(r) ==
    /\ At(r, "create-order", "co_setTransaction")
    /\ transactions' = [transactions EXCEPT ![req[r].oid] =
          CoTransaction(req[r].uid, req[r].tok, req[r].red)]
    /\ RespondWith(r, 200, [tok |-> req[r].tok, red |-> req[r].red])
    /\ UNCHANGED <<orders, tagihan, bookings, provider, ignoreUndefinedProperties, limiter>>

\* await orderRef.delete()
CoDeleteOrder(r) ==
    /\ At(r, "create-order", "co_deleteOrder")
    /\ orders' = [orders EXCEPT ![req[r].oid] = NoOrder]
    /\ Goto(r, "co_deleteTagihan", [pc |-> "co_deleteTagihan"])
    /\ UNCHANGED <<tagihan, transactions, bookings, provider, ignoreUndefinedProperties, limiter>>

\* the message of the error the clean-up throws on: a provider error that
\* carries ApiResponse.status_message gives 'Payment error: ...', every other
\* caught error, the 'Invalid Midtrans response' one included, the general text
CoErrorMessages(caught) ==
    IF caught = "fail"
    THEN {"Payment error", "Failed to process payment. Please try again."}
    ELSE {"Failed to process payment. Please try again."}

\* await tagihanRef.delete(), then the error is thrown to the outer catch
CoDeleteTagihan(r) ==
    /\ At(r, "create-order", "co_deleteTagihan")
    /\ tagihan' = [tagihan EXCEPT ![req[r].oid] = NoTagihan]
    /\ \E e \in CoErrorMessages(req[r].caught) : Respond(r, 500, e)
    /\ UNCHANGED <<orders, transactions, bookings, provider, ignoreUndefinedProperties, limiter>>

(* ------------------------------ POST /create --------------------------- *)
\* await orderRef.get()
CrGetOrder(r) ==
    /\ At(r, "create", "cr_getOrder")
    /\ IF ~orders[req[r].oid].exists
       THEN Respond(r, 404, "Order not found")
       ELSE Goto(r, "cr_create", [pc |-> "cr_create"])
    /\ UNCHANGED <<store, provider, ignoreUndefinedProperties, limiter>>

\* await snap.createTransaction(parameter)
CrCreate(r) ==
    /\ At(r, "create", "cr_create")
    /\ \E res \in SnapCreateOutcomes :
          /\ SnapCreate(req[r].oid, res)
          /\ IF res = "fail"
             THEN Respond(r, 500, "Failed to create transaction")
             ELSE Goto(r, "cr_setTransaction",
                       [tok |-> IssuedToken(req[r].oid, res),
                        red |-> IssuedToken(req[r].oid, res)])
    /\ UNCHANGED <<store, ignoreUndefinedProperties, limiter>>

\* await transactionRef.set({...}): the whole document is replaced
CrSetTransaction(r) ==
    /\ At(r, "create", "cr_setTransaction")
    /\ IF Rejects(req[r].tok = NoToken \/ req[r].red = NoToken)
       THEN /\ Respond(r, 500, "Failed to create transaction")
            /\ UNCHANGED transactions
       ELSE /\ transactions' = [transactions EXCEPT ![req[r].oid] =
                  CrTransaction(req[r].tok, req[r].red)]
            /\ RespondWith(r, 200, [tok |-> req[r].tok, red |-> req[r].red])
    /\ UNCHANGED <<orders, tagihan, bookings, provider, ignoreUndefinedProperties, limiter>>

(* ----------------------- GET /payment-url/:orderId --------------------- *)
\* await transactionRef.get(): a stored payment_url is returned
PuGetTransaction(r) ==
    /\ At(r, "payment-url", "pu_getTransaction")
    /\ LET t == transactions[req[r].oid] IN
         IF ~t.exists
         THEN Respond(r, 404, "Transaction not found")
         ELSE IF t.payment_url # NoToken
         THEN RespondWith(r, 200, [tok |-> t.snap_token, red |-> t.payment_url])
         ELSE Goto(r, "pu_getOrder", [pc |-> "pu_getOrder"])
    /\ UNCHANGED <<store, provider, ignoreUndefinedProperties, limiter>>

\* await orderRef.get()
PuGetOrder(r) ==
    /\ At(r, "payment-url", "pu_getOrder")
    /\ IF ~orders[req[r].oid].exists
       THEN Respond(r, 404, "Order not found")
       ELSE Goto(r, "pu_create", [pc |-> "pu_create"])
    /\ UNCHANGED <<store, provider, ignoreUndefinedProperties, limiter>>

\* await snap.createTransaction(parameter)
PuCreate(r) ==
    /\ At(r, "payment-url", "pu_create")
    /\ \E res \in SnapCreateOutcomes :
          /\ SnapCreate(req[r].oid, res)
          /\ IF res = "fail"
             THEN Respond(r, 500, "Failed to get payment URL")
             ELSE Goto(r, "pu_updateTransaction",
                       [tok |-> IssuedToken(req[r].oid, res),
                        red |-> IssuedToken(req[r].oid, res)])
    /\ UNCHANGED <<store, ignoreUndefinedProperties, limiter>>

\* await transactionRef.update({snap_token, payment_url, updated_at})
PuUpdateTransaction(r) ==
    /\ At(r, "payment-url", "pu_updateTransaction")
    /\ IF Rejects(req[r].tok = NoToken \/ req[r].red = NoToken)
          \/ ~transactions[req[r].oid].exists
       THEN /\ Respond(r, 500, "Failed to get payment URL")
            /\ UNCHANGED transactions
       ELSE /\ transactions' = [transactions EXCEPT ![req[r].oid] =
                  [@ EXCEPT !.snap_token = UpdTok(@, req[r].tok),
                            !.payment_url = UpdTok(@, req[r].red)]]
            /\ RespondWith(r, 200, [tok |-> req[r].tok, red |-> req[r].red])
    /\ UNCHANGED <<orders, tagihan, bookings, provider, ignoreUndefinedProperties, limiter>>

(* ----------------------------- POST /bookings -------------------------- *)
\* the handler's one await: db.collection('bookings').doc(bookingId).set(booking)
CreateBooking(b, u) ==
    /\ ~bookings[b].exists
    /\ bookings' = [bookings EXCEPT ![b] = NewBooking(u)]
    /\ UNCHANGED <<orders, tagihan, transactions, provider, ignoreUndefinedProperties, limiter, req>>

\* the provider delivers a notification again that was not acknowledged with
\* success: the same order, a new run of the handler
Redeliver(r) ==
    /\ req[r].kind = "notification" /\ req[r].pc = "done" /\ req[r].code # 200
    /\ req' = [req EXCEPT ![r] = Merge(IdleReq,
                  [kind |-> "notification", pc |-> FirstPc("notification"), oid |-> @.oid])]
    /\ UNCHANGED <<store, provider, ignoreUndefinedProperties, limiter>>

\* the verification of a delivery succeeds
NotifVerified(r) == NotifVerify(r) /\ req'[r].pc = "nf_getTransaction"

(* ----------------------- PATCH /bookings/:id/status -------------------- *)
\* the values the handler accepts for status and for paymentStatus
PatchStatuses == {"pending", "confirmed", "cancelled", "completed"}
PatchPaymentStatuses == {"unpaid", "Berhasil", "refunded"}

\* what the bodies of the requests hold in each of the two fields: nothing,
\* an accepted value, or a value outside the list ("failed" is one the
\* reconciliation writes and the handler refuses)
PatchStatusInputs == {Undef, "failed", "confirmed", "completed"}
PatchPaymentInputs == {Undef, "failed", "Berhasil"}

\* the request arrives with a token verifyToken accepts
PatchArrive(r, limit) ==
    /\ req[r].pc = "idle"
    /\ IF r = 1 THEN TRUE ELSE req[r - 1].pc # "idle"
    /\ Cardinality(InFlight) < limit
    /\ \E b \in Bookings, u \in Users, st \in PatchStatusInputs, ps \in PatchPaymentInputs :
          req' = [req EXCEPT ![r] = Merge(@,
                    [kind |-> "bookings/status", pc |-> "pb_getBooking", bid |-> b,
                     uid |-> u, status |-> st, paymentStatus |-> ps])]
    /\ UNCHANGED <<store, provider, ignoreUndefinedProperties, limiter>>

\* a handler that stores each field as soon as it has accepted it
PatchGetBooking_StoresAsAccepted(r) ==
    /\ At(r, "bookings/status", "pb_getBooking")
    /\ LET bk == bookings[req[r].bid] IN
         IF ~bk.exists
         THEN Respond(r, 404, "Booking not found") /\ UNCHANGED bookings
         ELSE IF bk.pasienId # req[r].uid
         THEN Respond(r, 403, "Access denied") /\ UNCHANGED bookings
         ELSE IF req[r].status # Undef /\ req[r].status \notin PatchStatuses
         THEN Respond(r, 400, "Invalid status") /\ UNCHANGED bookings
         ELSE IF req[r].paymentStatus # Undef /\ req[r].paymentStatus \notin PatchPaymentStatuses
         THEN /\ Respond(r, 400, "Invalid payment status")
              /\ bookings' = [bookings EXCEPT ![req[r].bid] =
                                 [@ EXCEPT !.status = Upd(@, req[r].status)]]
         ELSE Goto(r, "pb_update", [pc |-> "pb_update"]) /\ UNCHANGED bookings
    /\ UNCHANGED <<orders, tagihan, transactions, provider, ignoreUndefinedProperties, limiter>>

\* await bookingRef.get(), then the owner check and the validation of the
\* two fields, all before the first write
PatchGetBooking(r) ==
    /\ At(r, "bookings/status", "pb_getBooking")
    /\ LET bk == bookings[req[r].bid] IN
         IF ~bk.exists
         THEN Respond(r, 404, "Booking not found")
         ELSE IF bk.pasienId # req[r].uid
         THEN Respond(r, 403, "Access denied")
         ELSE IF req[r].status # Undef /\ req[r].status \notin PatchStatuses
         THEN Respond(r, 400, "Invalid status")
         ELSE IF req[r].paymentStatus # Undef /\ req[r].paymentStatus \notin PatchPaymentStatuses
         THEN Respond(r, 400, "Invalid payment status")
         ELSE Goto(r, "pb_update", [pc |-> "pb_update"])
    /\ UNCHANGED bookings
    /\ UNCHANGED <<orders, tagihan, transactions, provider, ignoreUndefinedProperties, limiter>>

\* await bookingRef.update(updateData): the fields the body gave
PatchUpdate(r) ==
    /\ At(r, "bookings/status", "pb_update")
    /\ IF ~bookings[req[r].bid].exists
       THEN /\ Respond(r, 500, "Failed to update booking status")
            /\ UNCHANGED bookings
       ELSE /\ bookings' = [bookings EXCEPT ![req[r].bid] =
                               [@ EXCEPT !.status = Upd(@, req[r].status),
                                         !.paymentStatus = Upd(@, req[r].paymentStatus)]]
            /\ Goto(r, "pb_read", [pc |-> "pb_read"])
    /\ UNCHANGED <<orders, tagihan, transactions, provider, ignoreUndefinedProperties, limiter>>

\* await bookingRef.get(), then res.json with the Booking as stored
PatchRead(r) ==
    /\ At(r, "bookings/status", "pb_read")
    /\ LET bk == bookings[req[r].bid] IN
         RespondWith(r, 200, [status |-> bk.status, paymentStatus |-> bk.paymentStatus])
    /\ UNCHANGED <<store, provider, ignoreUndefinedProperties, limiter>>

PatchStep ==
    \/ \E r \in Reqs : PatchGetBooking(r)
    \/ \E r \in Reqs : PatchUpdate(r)
    \/ \E r \in Reqs : PatchRead(r)

(* --------------------------- the state machine ------------------------- *)
Init ==
    /\ orders = [o \in Orders |-> NoOrder]
    /\ tagihan = [o \in Orders |-> NoTagihan]
    /\ transactions = [o \in Orders |-> NoTransaction]
    /\ bookings = [b \in Bookings |-> NoBooking]
    /\ midtrans = [o \in Orders |-> "none"]
    /\ createCalls = [o \in Orders |-> 0]
    /\ snapTokens = [o \in Orders |-> 0]
    /\ ignoreUndefinedProperties \in BOOLEAN
    /\ req = [r \in Reqs |-> IdleReq]
    /\ now = 1
    /\ hits = [i \in Ips |-> 0]

\* the steps of POST /notification
WebhookStep ==
    \/ \E r \in Reqs : NotifVerify(r)
    \/ \E r \in Reqs : NotifGetTransaction(r)
    \/ \E r \in Reqs : NotifGetOrder(r)
    \/ \E r \in Reqs : NotifCommit(r)

\* the steps of the two ingestion paths
ReconStep ==
    \/ WebhookStep
    \/ \E r \in Reqs : CheckGetTransaction(r)
    \/ \E r \in Reqs : CheckGetOrder(r)
    \/ \E r \in Reqs : CheckStatus(r)
    \/ \E r \in Reqs : CheckCommit(r)
    \/ \E r \in Reqs : CheckRead(r)

\* the steps of the four creation endpoints
CreateStep ==
    \/ \E r \in Reqs : CtGetOrder(r)
    \/ \E r \in Reqs : CtSetOrder(r)
    \/ \E r \in Reqs : CtGetTagihan(r)
    \/ \E r \in Reqs : CtSetTagihan(r)
    \/ \E r \in Reqs : CtStatus(r)
    \/ \E r \in Reqs : CtCreate(r)
    \/ \E r \in Reqs : CtGetTransaction(r)
    \/ \E r \in Reqs : CtSetTransaction(r)
    \/ \E r \in Reqs : CtUpdateTransaction(r)
    \/ \E r \in Reqs : CoGetOrder(r)
    \/ \E r \in Reqs : CoSetOrder(r)
    \/ \E r \in Reqs : CoGetTagihan(r)
    \/ \E r \in Reqs : CoSetTagihan(r)
    \/ \E r \in Reqs : CoGetTransaction(r)
    \/ \E r \in Reqs : CoCreate(r)
    \/ \E r \in Reqs : CoSetTransaction(r)
    \/ \E r \in Reqs : CoDeleteOrder(r)
    \/ \E r \in Reqs : CoDeleteTagihan(r)
    \/ \E r \in Reqs : CrGetOrder(r)
    \/ \E r \in Reqs : CrCreate(r)
    \/ \E r \in Reqs : CrSetTransaction(r)
    \/ \E r \in Reqs : PuGetTransaction(r)
    \/ \E r \in Reqs : PuGetOrder(r)
    \/ \E r \in Reqs : PuCreate(r)
    \/ \E r \in Reqs : PuUpdateTransaction(r)

ReconKinds == {"notification", "check-status"}
CreateKinds == {"create-transaction", "create-order", "create", "payment-url"}

\* the whole server, from the empty store
Next ==
    \/ \E r \in Reqs : Arrive(r, (Kinds \cup {"order"}) \ {"check-status"}, MaxInFlight)
    \/ \E r \in Reqs : VerifyTokenRejects(r, Kinds \cup {"order"}, MaxInFlight)
    \/ \E r \in Reqs : CtMissingFields(r, MaxInFlight)
    \/ \E r \in Reqs : PatchArrive(r, MaxInFlight)
    \/ \E r \in Reqs : OrderGetTransaction(r)
    \/ \E r \in Reqs : OrderGetTagihan(r)
    \/ \E r \in Reqs : PatchGetBooking(r)
    \/ \E r \in Reqs : PatchUpdate(r)
    \/ \E r \in Reqs : PatchRead(r)
    \/ \E r \in Reqs : StatusCheckLimiter(r, MaxInFlight)
    \/ WindowElapses
    \/ \E r \in Reqs : ForwardFetch(r)
    \/ ReconStep
    \/ CreateStep
    \/ \E b \in Bookings, u \in Users : CreateBooking(b, u)
    \/ \E o \in Orders : ProviderAdvance(o)

Spec == Init /\ [][Next]_vars

\* the creation endpoints alone, from the empty store
NextCreate ==
    \/ \E r \in Reqs : Arrive(r, CreateKinds, MaxInFlight)
    \/ CreateStep

SpecCreate == Init /\ [][NextCreate]_vars

\* the creation endpoints called one request after the other
NextCreateSeq ==
    \/ \E r \in Reqs : Arrive(r, CreateKinds, 1)
    \/ CreateStep

SpecCreateSeq == Init /\ [][NextCreateSeq]_vars

\* what the creation requests of an order leave behind once they are over:
\* the Transaction as one of the endpoints wrote it (or none, when the create
\* call failed or its answer was refused by the store) and the provider's side
ReconSeeds(ignoring) ==
    {[tx |-> NoTransaction, status |-> "none", calls |-> 1, tokens |-> 0],
     [tx |-> CtTransaction("u1", 1, 1), status |-> "pending", calls |-> 1, tokens |-> 1],
     [tx |-> CrTransaction(1, 1), status |-> "pending", calls |-> 2, tokens |-> 1]}
    \cup (IF ignoring
          THEN {[tx |-> CtTransaction("u1", NoToken, NoToken), status |-> "pending",
                 calls |-> 1, tokens |-> 0]}
          ELSE {[tx |-> NoTransaction, status |-> "pending", calls |-> 1, tokens |-> 0]})

\* the store after creation: the Order and the Billing Statement as created,
\* the Transaction of a seed, no Booking yet, no request in the server
InitRecon ==
    /\ ignoreUndefinedProperties \in BOOLEAN
    /\ orders = [o \in Orders |-> NewOrder("B1", "u1")]
    /\ tagihan = [o \in Orders |-> NewTagihan("B1", "u1")]
    /\ bookings = [b \in Bookings |-> NoBooking]
    /\ \E seed \in ReconSeeds(ignoreUndefinedProperties) :
          /\ transactions = [o \in Orders |-> seed.tx]
          /\ midtrans = [o \in Orders |-> seed.status]
          /\ createCalls = [o \in Orders |-> seed.calls]
          /\ snapTokens = [o \in Orders |-> seed.tokens]
    /\ req = [r \in Reqs |-> IdleReq]
    /\ now = 1
    /\ hits = [i \in Ips |-> 0]

\* the two ingestion paths, the provider and the booking service
NextRecon ==
    \/ \E r \in Reqs : Arrive(r, ReconKinds, MaxInFlight)
    \/ ReconStep
    \/ \E b \in Bookings : CreateBooking(b, orders["ORD1"].userId)
    \/ \E o \in Orders : ProviderAdvance(o)

SpecRecon == InitRecon /\ [][NextRecon]_vars

\* the same with one request after the other
NextReconSeq ==
    \/ \E r \in Reqs : Arrive(r, ReconKinds, 1)
    \/ ReconStep
    \/ \E b \in Bookings : CreateBooking(b, orders["ORD1"].userId)
    \/ \E o \in Orders : ProviderAdvance(o)

SpecReconSeq == InitRecon /\ [][NextReconSeq]_vars

\* what creation requests leave behind when the clean-up of a /create-order
\* whose create call failed has deleted the Order and the Billing Statement:
\* nothing but the provider's transaction (tx, order, tagihan all absent), or,
\* when another creation request overlapped the clean-up, a Transaction
\* without Order, without Billing Statement or without both
AbsentSeeds ==
    {[tx |-> TRUE, order |-> TRUE, tagihan |-> TRUE],
     [tx |-> FALSE, order |-> FALSE, tagihan |-> FALSE],
     [tx |-> TRUE, order |-> FALSE, tagihan |-> FALSE],
     [tx |-> TRUE, order |-> TRUE, tagihan |-> FALSE],
     [tx |-> TRUE, order |-> FALSE, tagihan |-> TRUE]}

InitReconAbsent ==
    /\ ignoreUndefinedProperties \in BOOLEAN
    /\ \E seed \in AbsentSeeds :
          /\ orders = [o \in Orders |-> IF seed.order THEN NewOrder("B1", "u1") ELSE NoOrder]
          /\ tagihan = [o \in Orders |->
                          IF seed.tagihan THEN NewTagihan("B1", "u1") ELSE NoTagihan]
          /\ transactions = [o \in Orders |->
                               IF seed.tx THEN CtTransaction("u1", 1, 1) ELSE NoTransaction]
          /\ snapTokens = [o \in Orders |-> IF seed.tx THEN 1 ELSE 0]
          /\ createCalls = [o \in Orders |-> IF seed.tx /\ ~(seed.order /\ seed.tagihan) THEN 2 ELSE 1]
    /\ bookings = [b \in Bookings |-> NoBooking]
    /\ midtrans = [o \in Orders |-> "pending"]
    /\ req = [r \in Reqs |-> IdleReq]
    /\ now = 1
    /\ hits = [i \in Ips |-> 0]

\* the two ingestion paths over such a store, one request after the other
NextReconAbsent ==
    \/ \E r \in Reqs : Arrive(r, ReconKinds, 1)
    \/ ReconStep
    \/ \E b \in Bookings : CreateBooking(b, "u1")
    \/ \E o \in Orders : ProviderAdvance(o)

SpecReconAbsent == InitReconAbsent /\ [][NextReconAbsent]_vars

\* the webhook alone, called directly and through the forwarder, one delivery
\* after the other
NextWebhook ==
    \/ \E r \in Reqs : Arrive(r, WebhookKinds, 1)
    \/ \E r \in Reqs : ForwardFetch(r)
    \/ WebhookStep
    \/ \E b \in Bookings : CreateBooking(b, orders["ORD1"].userId)
    \/ \E o \in Orders : ProviderAdvance(o)

SpecWebhook == InitRecon /\ [][NextWebhook]_vars

\* the whole server handling one request after the other
NextSeq ==
    \/ \E r \in Reqs : Arrive(r, Kinds, 1)
    \/ \E r \in Reqs : VerifyTokenRejects(r, Kinds, 1)
    \/ \E r \in Reqs : ForwardFetch(r)
    \/ ReconStep
    \/ CreateStep
    \/ \E b \in Bookings, u \in Users : CreateBooking(b, u)
    \/ \E o \in Orders : ProviderAdvance(o)

SpecSeq == Init /\ [][NextSeq]_vars

\* the provider statuses of the seeded, reconciled orders
SettledStatuses == {"pending", "settlement", "expire"}

\* the empty store, or an order that POST /create-transaction created for u1,
\* whose Booking exists and that a notification has reconciled once
InitSettled ==
    /\ ignoreUndefinedProperties \in BOOLEAN
    /\ req = [r \in Reqs |-> IdleReq]
    /\ now = 1
    /\ hits = [i \in Ips |-> 0]
    /\ \/ /\ orders = [o \in Orders |-> NoOrder]
          /\ tagihan = [o \in Orders |-> NoTagihan]
          /\ transactions = [o \in Orders |-> NoTransaction]
          /\ bookings = [b \in Bookings |-> NoBooking]
          /\ midtrans = [o \in Orders |-> "none"]
          /\ createCalls = [o \in Orders |-> 0]
          /\ snapTokens = [o \in Orders |-> 0]
       \/ \E st \in SettledStatuses :
            LET m == MapNotification(st, "pending", Undef, Undef) IN
              /\ orders = [o \in Orders |-> OrderUpdated(NewOrder("B1", "u1"), m)]
              /\ tagihan = [o \in Orders |-> TagihanUpdated(NewTagihan("B1", "u1"), m)]
              /\ transactions = [o \in Orders |->
                                    TransactionUpdated(CtTransaction("u1", 1, 1), m)]
              /\ bookings = [b \in Bookings |-> BookingUpdated(NewBooking("u1"), m)]
              /\ midtrans = [o \in Orders |-> st]
              /\ createCalls = [o \in Orders |-> 1]
              /\ snapTokens = [o \in Orders |-> 1]

\* the steps of POST /create-transaction and POST /create-order
OwnerCheckingStep ==
    \/ \E r \in Reqs : CtGetOrder(r)
    \/ \E r \in Reqs : CtSetOrder(r)
    \/ \E r \in Reqs : CtGetTagihan(r)
    \/ \E r \in Reqs : CtSetTagihan(r)
    \/ \E r \in Reqs : CtStatus(r)
    \/ \E r \in Reqs : CtCreate(r)
    \/ \E r \in Reqs : CtGetTransaction(r)
    \/ \E r \in Reqs : CtSetTransaction(r)
    \/ \E r \in Reqs : CtUpdateTransaction(r)
    \/ \E r \in Reqs : CoGetOrder(r)
    \/ \E r \in Reqs : CoSetOrder(r)
    \/ \E r \in Reqs : CoGetTagihan(r)
    \/ \E r \in Reqs : CoSetTagihan(r)
    \/ \E r \in Reqs : CoGetTransaction(r)
    \/ \E r \in Reqs : CoCreate(r)
    \/ \E r \in Reqs : CoSetTransaction(r)
    \/ \E r \in Reqs : CoDeleteOrder(r)
    \/ \E r \in Reqs : CoDeleteTagihan(r)

\* the two creation endpoints that create the Order and the Billing
\* Statement, called one request after the other
NextCreateSettled ==
    \/ \E r \in Reqs : Arrive(r, OwnerCheckingKinds, 1)
    \/ OwnerCheckingStep

SpecCreateSettled == InitSettled /\ [][NextCreateSettled]_vars

\* POST /create-transaction alone, one request after the other
CtStep ==
    \/ \E r \in Reqs : CtGetOrder(r)
    \/ \E r \in Reqs : CtSetOrder(r)
    \/ \E r \in Reqs : CtGetTagihan(r)
    \/ \E r \in Reqs : CtSetTagihan(r)
    \/ \E r \in Reqs : CtStatus(r)
    \/ \E r \in Reqs : CtCreate(r)
    \/ \E r \in Reqs : CtGetTransaction(r)
    \/ \E r \in Reqs : CtSetTransaction(r)
    \/ \E r \in Reqs : CtUpdateTransaction(r)

NextCt ==
    \/ \E r \in Reqs : Arrive(r, {"create-transaction"}, 1)
    \/ \E r \in Reqs : CtMissingFields(r, 1)
    \/ CtStep

SpecCt == Init /\ [][NextCt]_vars

\* the booking router: POST /bookings and PATCH /bookings/:id/status, one
\* request after the other
NextBooking ==
    \/ \E r \in Reqs : PatchArrive(r, 1)
    \/ PatchStep
    \/ \E b \in Bookings, u \in Users : CreateBooking(b, u)

SpecBooking == Init /\ [][NextBooking]_vars

\* the Poll Path behind its limiter, one request after the other, over the
\* empty store and over stores with the four records of an order
PollStep ==
    \/ \E r \in Reqs : CheckGetTransaction(r)
    \/ \E r \in Reqs : CheckGetOrder(r)
    \/ \E r \in Reqs : CheckStatus(r)
    \/ \E r \in Reqs : CheckCommit(r)
    \/ \E r \in Reqs : CheckRead(r)

NextPoll ==
    \/ \E r \in Reqs : StatusCheckLimiter(r, 1)
    \/ WindowElapses
    \/ PollStep
    \/ \E o \in Orders : ProviderAdvance(o)

SpecPoll == InitSettled /\ [][NextPoll]_vars

\* GET /order/:orderId
OrderStep ==
    \/ \E r \in Reqs : OrderGetTransaction(r)
    \/ \E r \in Reqs : OrderGetTagihan(r)

\* the user whose POST /create-transaction made the order of InitAfterCt
CtCaller == "u1"

\* the server after POST /create-transaction of CtCaller has succeeded for
\* every order: the Order, the Billing Statement and the Transaction as that
\* request wrote them, the provider's transaction pending, no Booking yet
InitAfterCt ==
    /\ ignoreUndefinedProperties \in BOOLEAN
    /\ orders = [o \in Orders |-> NewOrder("B1", CtCaller)]
    /\ tagihan = [o \in Orders |-> NewTagihan("B1", CtCaller)]
    /\ transactions = [o \in Orders |-> CtTransaction(CtCaller, 1, 1)]
    /\ bookings = [b \in Bookings |-> NoBooking]
    /\ midtrans = [o \in Orders |-> "pending"]
    /\ createCalls = [o \in Orders |-> 1]
    /\ snapTokens = [o \in Orders |-> 1]
    /\ req = [r \in Reqs |-> IdleReq]
    /\ now = 1
    /\ hits = [i \in Ips |-> 0]

\* the reads of test/test-api.js (GET /order, GET /check-status) and
\* POST /create from there on, one request after the other, with the provider
\* and the booking service beside them
NextAfterCt ==
    \/ \E r \in Reqs : Arrive(r, {"order", "check-status", "create"}, 1)
    \/ OrderStep
    \/ PollStep
    \/ \E r \in Reqs : CrGetOrder(r)
    \/ \E r \in Reqs : CrCreate(r)
    \/ \E r \in Reqs : CrSetTransaction(r)
    \/ \E b \in Bookings, u \in Users : CreateBooking(b, u)
    \/ \E o \in Orders : ProviderAdvance(o)

SpecAfterCt == InitAfterCt /\ [][NextAfterCt]_vars

\* the endpoints that write status fields, after a successful
\* POST /create-transaction: the webhook, POST /create and
\* PATCH /bookings/:id/status, one request after the other
NextStatusWriters ==
    \/ \E r \in Reqs : Arrive(r, {"notification", "create"}, 1)
    \/ \E r \in Reqs : PatchArrive(r, 1)
    \/ WebhookStep
    \/ \E r \in Reqs : CrGetOrder(r)
    \/ \E r \in Reqs : CrCreate(r)
    \/ \E r \in Reqs : CrSetTransaction(r)
    \/ PatchStep
    \/ \E b \in Bookings, u \in Users : CreateBooking(b, u)
    \/ \E o \in Orders : ProviderAdvance(o)

SpecStatusWriters == InitAfterCt /\ [][NextStatusWriters]_vars

\* the webhook with the provider's re-delivery, after a successful
\* POST /create-transaction; the Booking is made at some time or never
NextRedeliver ==
    \/ \E r \in Reqs : Arrive(r, {"notification"}, 1)
    \/ \E r \in Reqs : Redeliver(r)
    \/ WebhookStep
    \/ \E b \in Bookings : CreateBooking(b, CtCaller)
    \/ \E o \in Orders : ProviderAdvance(o)

\* the event loop runs every handler step that can run and the provider keeps
\* re-delivering (weak fairness); the provider does not fail every one of the
\* verifications it is asked for again and again (strong fairness)
FairRedeliver ==
    \A r \in Reqs :
       /\ WF_vars(Redeliver(r))
       /\ SF_vars(NotifVerified(r))
       /\ WF_vars(NotifGetTransaction(r))
       /\ WF_vars(NotifGetOrder(r))
       /\ WF_vars(NotifCommit(r))

SpecRedeliver == InitAfterCt /\ [][NextRedeliver]_vars /\ FairRedeliver

(* ======================================================================= *)
(*                              the claims                                 *)
(* ======================================================================= *)
\* request r takes the step
TookStep(r) == req'[r] # req[r]

\* the step is the commit of r's batch: the webhook answers 200 after it, the
\* poll goes on to its final reads
Commits(r) ==
    \/ At(r, "notification", "nf_commit") /\ req'[r].pc = "done" /\ req'[r].code = 200
    \/ /\ At(r, "check-status", "cs_commit") /\ req'[r].pc = "cs_read"
       /\ BatchCanCommit(req[r].oid, req[r].bid)

\* the mapping table as the specification prints it
SpecTable(s) ==
    CASE s \in {"capture", "settlement"} ->
           [status |-> "confirmed", paymentStatus |-> "success", tagihanStatus |-> "success"]
      [] s = "pending" ->
           [status |-> "pending", paymentStatus |-> "unpaid", tagihanStatus |-> "unpaid"]
      [] s \in {"cancel", "deny", "expire"} ->
           [status |-> "cancelled", paymentStatus |-> "failed", tagihanStatus |-> "failed"]

\* the same table with the values the handlers store
StoredTable(s) ==
    CASE s \in {"capture", "settlement"} ->
           [status |-> "confirmed", paymentStatus |-> "Berhasil", tagihanStatus |-> "Berhasil"]
      [] s = "pending" ->
           [status |-> "pending", paymentStatus |-> "unpaid", tagihanStatus |-> "unpaid"]
      [] s \in {"cancel", "deny", "expire"} ->
           [status |-> "cancelled", paymentStatus |-> "failed", tagihanStatus |-> "failed"]

\* C1 as stated: a committed reconciliation with provider status s stores
\* status / paymentStatus / billingStatus as the table of the specification
\* gives them, with 'success' for capture and settlement.
C1_SpecTable ==
    [][\A r \in Reqs :
         (Commits(r) /\ req[r].st \in RecognizedStatuses)
           => Triple(transactions'[req[r].oid]) = SpecTable(req[r].st)]_vars

\* C1 amended: a committed reconciliation (webhook or poll) with provider
\* status s stores on the Transaction and on the Booking: confirmed / Berhasil
\* / Berhasil for capture and settlement, pending / unpaid / unpaid for
\* pending, cancelled / failed / failed for cancel, deny and expire.
C1_StoredTable ==
    [][\A r \in Reqs :
         (Commits(r) /\ req[r].st \in RecognizedStatuses)
           => /\ Triple(transactions'[req[r].oid]) = StoredTable(req[r].st)
              /\ Triple(bookings'[req[r].bid]) = StoredTable(req[r].st)]_vars

\* a webhook with 'settlement' has committed and the Transaction is confirmed
C1_Witness ==
    \E r \in Reqs :
       /\ req[r].kind = "notification" /\ req[r].pc = "done" /\ req[r].code = 200
       /\ req[r].st = "settlement"
       /\ Triple(transactions[req[r].oid]) =
            [status |-> "confirmed", paymentStatus |-> "Berhasil", tagihanStatus |-> "Berhasil"]

\* C2 as stated: after a committed reconciliation each of status,
\* paymentStatus and billingStatus has the same value on every one of the
\* Order, the Billing Statement, the Transaction and the Booking that has the
\* field.
C2_SameTripleOnAllFour ==
    [][\A r \in Reqs :
         Commits(r) =>
           LET t == transactions'[req[r].oid]
               o == orders'[req[r].oid]
               g == tagihan'[req[r].oid]
               b == bookings'[req[r].bid]
           IN /\ o.status = t.status /\ g.status = t.status /\ b.status = t.status
              /\ o.paymentStatus = t.paymentStatus /\ b.paymentStatus = t.paymentStatus
              /\ b.tagihanStatus = t.tagihanStatus]_vars

\* C2 amended: after a committed reconciliation with one of the six mapped
\* provider statuses the Transaction and the Booking carry the same status,
\* paymentStatus and tagihanStatus, the Order carries the same status and
\* paymentStatus, and the status field of the Billing Statement carries the
\* tagihanStatus value.
C2_SameTripleWhereStored ==
    [][\A r \in Reqs :
         (Commits(r) /\ req[r].st \in RecognizedStatuses) =>
           LET t == transactions'[req[r].oid]
               o == orders'[req[r].oid]
               g == tagihan'[req[r].oid]
               b == bookings'[req[r].bid]
           IN /\ b.status = t.status /\ b.paymentStatus = t.paymentStatus
              /\ b.tagihanStatus = t.tagihanStatus
              /\ o.status = t.status /\ o.paymentStatus = t.paymentStatus
              /\ g.status = t.tagihanStatus]_vars

\* a poll has committed 'expire': cancelled / failed on all four records
C2_Witness ==
    \E r \in Reqs :
       /\ req[r].kind = "check-status" /\ req[r].pc = "done" /\ ~req[r].isLocalStatus
       /\ req[r].status = "cancelled" /\ midtrans[req[r].oid] = "expire"
       /\ transactions[req[r].oid].status = "cancelled"
       /\ orders[req[r].oid].paymentStatus = "failed"
       /\ tagihan[req[r].oid].status = "failed"
       /\ \E b \in Bookings : bookings[b].exists /\ bookings[b].tagihanStatus = "failed"

\* the booking the request's batch addresses (known once the Order is read)
BookingOf(r) == IF req[r].bid = Undef THEN orders[req[r].oid].bookingId ELSE req[r].bid

\* value v was written over old: v is stored, or old is kept where v is undefined
Written(old, new, v) == IF v = Undef THEN new = old ELSE new = v

\* C3: a step of a webhook or poll request either leaves all four records as
\* they are or writes the batch's triple to all four of them, which all
\* existed; a webhook answered with an error has changed none of them.
C3_AllOrNothing ==
    [][\A r \in Reqs :
         (TookStep(r) /\ req[r].kind \in ReconKinds) =>
           \/ UNCHANGED store
           \/ LET o == req[r].oid
                  b == BookingOf(r)
                  m == Triple(req[r])
              IN /\ transactions[o].exists /\ orders[o].exists
                 /\ tagihan[o].exists /\ bookings[b].exists
                 /\ req'[r].code \in {0, 200}
                 /\ Written(transactions[o].status, transactions'[o].status, m.status)
                 /\ Written(orders[o].status, orders'[o].status, m.status)
                 /\ Written(bookings[b].status, bookings'[b].status, m.status)
                 /\ Written(transactions[o].paymentStatus, transactions'[o].paymentStatus,
                            m.paymentStatus)
                 /\ Written(orders[o].paymentStatus, orders'[o].paymentStatus,
                            m.paymentStatus)
                 /\ Written(bookings[b].paymentStatus, bookings'[b].paymentStatus,
                            m.paymentStatus)
                 /\ Written(transactions[o].tagihanStatus, transactions'[o].tagihanStatus,
                            m.tagihanStatus)
                 /\ Written(tagihan[o].status, tagihan'[o].status, m.tagihanStatus)
                 /\ Written(bookings[b].tagihanStatus, bookings'[b].tagihanStatus,
                            m.tagihanStatus)]_vars

\* a webhook's batch failed for want of the Booking: it was answered 500 and
\* the three records that exist still hold what creation gave them
C3_Witness ==
    \E r \in Reqs :
       /\ req[r].kind = "notification" /\ req[r].pc = "done" /\ req[r].code = 500
       /\ req[r].st = "settlement"
       /\ transactions[req[r].oid].exists /\ transactions[req[r].oid].status = "pending"
       /\ orders[req[r].oid].exists /\ orders[req[r].oid].status = "pending"
       /\ tagihan[req[r].oid].exists /\ tagihan[req[r].oid].status = "pending"
       /\ \A b \in Bookings : ~bookings[b].exists

\* the terminal values of status
Terminal == {"confirmed", "cancelled"}

\* C4: once the Transaction and the Order of an order store a terminal status
\* (confirmed or cancelled), no step of a webhook or poll request sets the
\* status of the Transaction, the Order or the Booking back to pending.
C4_NoRevertToPending ==
    [][\A o \in Orders :
         (transactions[o].status \in Terminal /\ orders[o].status \in Terminal)
           => /\ transactions'[o].status # "pending"
              /\ orders'[o].status # "pending"
              /\ \A b \in Bookings :
                    bookings[b].status \in Terminal => bookings'[b].status # "pending"]_vars

\* C5: the stored status of an order never leaves a terminal state for the
\* other one: a confirmed Transaction never becomes cancelled and a cancelled
\* Transaction never becomes confirmed.
C5_TerminalStays ==
    [][\A o \in Orders :
         /\ transactions[o].status = "confirmed" => transactions'[o].status # "cancelled"
         /\ transactions[o].status = "cancelled" => transactions'[o].status # "confirmed"]_vars

\* C6: once the Transaction holds a snap_token and a redirect URL, no step
\* clears them or changes them to a different value.
C6_TokenFrozen ==
    [][\A o \in Orders :
         (transactions[o].snap_token # NoToken /\ transactions[o].redirect_url # NoToken)
           => /\ transactions'[o].snap_token = transactions[o].snap_token
              /\ transactions'[o].redirect_url = transactions[o].redirect_url]_vars

\* the request was answered with success
Succeeded(r) == req[r].pc = "done" /\ req[r].code \in {200, 201}

\* C7: when the first two requests are both POST /create-transaction or both
\* POST /create-order, one after the other, and both are answered with
\* success, the provider has received at most one create call and the token
\* and redirect URL of the second answer equal those of the first.
C7_SecondReusesFirst ==
    \A k \in OwnerCheckingKinds :
       (/\ req[1].kind = k /\ Succeeded(1)
        /\ req[2].kind = k /\ Succeeded(2)
        /\ \A r \in Reqs \ {1, 2} : req[r].pc = "idle")
         => /\ createCalls[req[1].oid] <= 1
            /\ req[2].tok = req[1].tok
            /\ req[2].red = req[1].red

\* C8: while only POST /create-transaction and POST /create-order requests
\* run, in any interleaving, the provider never issues a second token for the
\* order (so it has answered at most one create call with success), and a
\* snap_token stored on the Transaction is never replaced.
C8_OneCreateUnderRace ==
    [][(\A r \in Reqs : req[r].kind \in OwnerCheckingKinds \cup {"none"})
         => \A o \in Orders :
               /\ snapTokens'[o] <= 1
               /\ transactions[o].snap_token # NoToken
                    => transactions'[o].snap_token = transactions[o].snap_token]_vars

\* the position from which a creation request whose create call failed is answered
AfterFailedCreate == {"ct_create", "co_deleteTagihan"}

\* C9: when a POST /create-transaction or POST /create-order request that
\* itself created the Order and the Billing Statement is answered after its
\* provider create call failed, neither the Order nor the Billing Statement
\* of the orderId exists.
C9_FailedCreateCleansUp ==
    [][\A r \in Reqs :
         (/\ req[r].kind \in OwnerCheckingKinds
          /\ req[r].madeOrder /\ req[r].madeTagihan
          /\ req[r].pc \in AfterFailedCreate
          /\ req'[r].pc = "done" /\ req'[r].code = 500)
           => /\ ~orders'[req[r].oid].exists
              /\ ~tagihan'[req[r].oid].exists]_vars

\* the four records of the order exist
FourPresent(o) ==
    /\ transactions[o].exists /\ orders[o].exists /\ tagihan[o].exists
    /\ bookings[orders[o].bookingId].exists

\* the request before r was a webhook with the same transaction_status that
\* was answered with success
SameAsPrevious(r) ==
    IF r = 1 THEN FALSE
    ELSE /\ req[r - 1].kind = "notification" /\ Succeeded(r - 1)
         /\ req[r - 1].st = req[r].st

\* C10: a verified notification that finds the four records present is
\* answered with success, and when it repeats the notification before it, it
\* leaves the four records as that one left them.
C10_TwiceSameAndSuccess ==
    [][\A r \in Reqs :
         (/\ req[r].kind = "notification"
          /\ req[r].pc \in {"nf_getTransaction", "nf_getOrder", "nf_commit"}
          /\ req'[r].pc = "done"
          /\ FourPresent(req[r].oid))
           => /\ req'[r].code = 200
              /\ SameAsPrevious(r) => UNCHANGED store]_vars

\* C11: a step of POST /notification, called directly or through the
\* forwarder, for an order that has no Transaction changes no record, and when
\* it answers the request it answers with an error status, never with success.
C11_MissingTransactionIsError ==
    [][\A r \in Reqs :
         (/\ TookStep(r) /\ req[r].kind \in WebhookKinds
          /\ ~transactions[req[r].oid].exists)
           => /\ UNCHANGED store
              /\ req'[r].pc = "done" => req'[r].code >= 400]_vars

\* a verified notification found no Transaction and was answered 500
C11_Witness ==
    \E r \in Reqs :
       /\ req[r].kind = "notification" /\ req[r].pc = "done"
       /\ req[r].st \in ProviderStatuses
       /\ ~transactions[req[r].oid].exists
       /\ req[r].code = 500 /\ req[r].err = "Failed to process notification"

\* C12: a step of a webhook or poll request taken while one of the four
\* records of its order is absent (the Transaction, the Order, the Billing
\* Statement or the Booking the Order names) modifies no record.
C12_AbsentRecordNoWrite ==
    [][\A r \in Reqs :
         (/\ TookStep(r) /\ req[r].kind \in ReconKinds \cup WebhookKinds
          /\ ~(/\ transactions[req[r].oid].exists
               /\ orders[req[r].oid].exists
               /\ tagihan[req[r].oid].exists
               /\ bookings[BookingOf(r)].exists))
           => UNCHANGED store]_vars

\* a webhook obtained 'settlement' for an order whose Billing Statement is
\* gone: its batch failed, and the Transaction, the Order and the Booking are
\* as they were
C12_Witness ==
    \E r \in Reqs :
       /\ req[r].kind = "notification" /\ req[r].pc = "done" /\ req[r].code = 500
       /\ req[r].st = "settlement"
       /\ ~tagihan[req[r].oid].exists
       /\ transactions[req[r].oid].exists /\ transactions[req[r].oid].status = "pending"
       /\ orders[req[r].oid].exists /\ orders[req[r].oid].status = "pending"
       /\ \E b \in Bookings : bookings[b].exists /\ bookings[b].status = "pending"

\* the answer of a request as its caller sees it
AnswerOf(q) == [code |-> q.code, err |-> q.err]

\* C13: the answer POST /notification gives when the Booking is absent (the
\* batch fails on it) differs from the answer it gives when the Transaction
\* is absent and from the answer it gives when the Order is absent.
C13_DistinctNotFound ==
    [][\A r \in Reqs :
         (/\ At(r, "notification", "nf_commit") /\ req'[r].pc = "done"
          /\ transactions[req[r].oid].exists /\ orders[req[r].oid].exists
          /\ tagihan[req[r].oid].exists /\ ~bookings[req[r].bid].exists)
           => /\ AnswerOf(req'[r]) # NotifCatch("Transaction document not found")
              /\ AnswerOf(req'[r]) # [code |-> 404, err |-> "Order not found"]]_vars

\* C14: a poll of an order whose Transaction has no snap_token, handled with
\* no other request beside it, never reaches the provider's status query,
\* writes no record, and is answered 200 with the status, paymentStatus and
\* tagihanStatus the Transaction stores, marked isLocalStatus.
C14_NoTokenNoProviderCall ==
    [][\A r \in Reqs :
         (/\ TookStep(r) /\ req[r].kind = "check-status"
          /\ transactions[req[r].oid].exists /\ orders[req[r].oid].exists
          /\ transactions[req[r].oid].snap_token = NoToken)
           => /\ UNCHANGED <<store, provider>>
              /\ req'[r].pc \notin {"cs_status", "cs_commit"}
              /\ req'[r].pc = "done"
                    => /\ req'[r].code = 200 /\ req'[r].isLocalStatus
                       /\ Triple(req'[r]) = Triple(transactions[req[r].oid])]_vars

\* a poll of a token-less Transaction was answered with the stored 'pending'
\* although the provider holds 'settlement'
C14_Witness ==
    \E r \in Reqs :
       /\ req[r].kind = "check-status" /\ req[r].pc = "done" /\ req[r].code = 200
       /\ req[r].isLocalStatus /\ req[r].status = "pending"
       /\ transactions[req[r].oid].exists
       /\ transactions[req[r].oid].snap_token = NoToken
       /\ transactions[req[r].oid].status = "pending"
       /\ midtrans[req[r].oid] = "settlement"

\* C15: a poll of an order whose Transaction has a snap_token, handled with no
\* other request beside it, whose status query at the provider fails
\* (isLocalStatus is still set after the query) modifies no record and is
\* answered 200 with the status, paymentStatus and tagihanStatus the
\* Transaction stores, marked isLocalStatus.
C15_FailedQueryFallsBack ==
    [][\A r \in Reqs :
         (/\ TookStep(r) /\ req[r].kind = "check-status"
          /\ req[r].pc \in {"cs_status", "cs_read"}
          /\ transactions[req[r].oid].snap_token # NoToken
          /\ req'[r].isLocalStatus)
           => /\ UNCHANGED store
              /\ req'[r].pc \in {"cs_read", "done"}
              /\ req'[r].pc = "done"
                    => /\ req'[r].code = 200
                       /\ Triple(req'[r]) = Triple(transactions[req[r].oid])]_vars

\* a poll whose status query failed was answered with the stored 'pending'
\* although the provider holds 'settlement'
C15_Witness ==
    \E r \in Reqs :
       /\ req[r].kind = "check-status" /\ req[r].pc = "done" /\ req[r].code = 200
       /\ req[r].isLocalStatus /\ req[r].status = "pending"
       /\ transactions[req[r].oid].snap_token # NoToken
       /\ transactions[req[r].oid].status = "pending"
       /\ midtrans[req[r].oid] = "settlement"

\* C16: the status, paymentStatus and tagihanStatus a poll reports for the
\* transaction are the ones the Transaction stores when the answer is built.
C16_AnswersStoredTransaction ==
    [][\A r \in Reqs :
         (At(r, "check-status", "cs_read") /\ req'[r].pc = "done")
           => Triple(req'[r]) = Triple(transactions[req[r].oid])]_vars

\* C17: a creation or payment-url request is answered with the order's
\* payment data only when the caller is the user the Order belongs to.
C17_OnlyOwnerIsAnswered ==
    [][\A r \in Reqs :
         (/\ TookStep(r) /\ req[r].kind \in CallerKinds
          /\ req'[r].pc = "done" /\ req'[r].code \in {200, 201})
           => /\ orders'[req[r].oid].exists
              /\ orders'[req[r].oid].userId = req[r].uid]_vars

\* C18: a webhook delivery or poll whose provider status is none of the six
\* mapped ones changes no status, paymentStatus or tagihanStatus of any of
\* the four records (of the fields the batch writes, these are the ones the
\* records of the model hold).
C18_UnmappedStatusWritesNothing ==
    [][\A r \in Reqs :
         (/\ TookStep(r) /\ req[r].pc \in {"nf_commit", "cs_commit"}
          /\ req[r].st \notin RecognizedStatuses)
           => UNCHANGED store]_vars

\* C19: a notification, delivered to POST /notification or through the
\* forwarder, is answered 200 only by the step that commits the batch on four
\* existing records; every other answer carries an HTTP error status and
\* leaves the records as they were.
C19_SuccessOnlyAfterCommit ==
    [][\A r \in Reqs :
         (TookStep(r) /\ req[r].kind \in WebhookKinds /\ req'[r].pc = "done")
           => LET o == req[r].oid
                  committed == /\ req[r].pc = "nf_commit"
                               /\ transactions[o].exists /\ orders[o].exists
                               /\ tagihan[o].exists /\ bookings[req[r].bid].exists
                               /\ transactions'[o] = TransactionUpdated(transactions[o], Triple(req[r]))
                               /\ bookings'[req[r].bid] = BookingUpdated(bookings[req[r].bid], Triple(req[r]))
              IN /\ req'[r].code = 200 <=> committed
                 /\ ~committed => req'[r].code \in 400..599 /\ UNCHANGED store]_vars

\* a forwarded delivery was answered 500 after its batch failed (verified as
\* 'settlement', Transaction and Order present), and a later delivery was
\* answered 200 and stored the payment
C19_Witness ==
    \E r, q \in Reqs :
       /\ req[r].kind = "notification/midtrans" /\ req[r].pc = "done"
       /\ req[r].code = 500 /\ req[r].st = "settlement"
       /\ req[q].kind \in WebhookKinds /\ req[q].pc = "done" /\ req[q].code = 200
       /\ req[r].oid = req[q].oid
       /\ transactions[req[q].oid].status = "confirmed"

\* C20: the error POST /create-order answers with after a create response
\* that lacks the token or the redirect URL is none of the errors it answers
\* with after a failed create call.
C20_MalformedIsDistinct ==
    [][\A r \in Reqs :
         (/\ At(r, "create-order", "co_deleteTagihan") /\ req'[r].pc = "done"
          /\ req[r].caught = "malformed")
           => /\ req'[r].code \in 400..599
              /\ req'[r].err \notin CoErrorMessages("fail")]_vars

\* C21: an Order or a Billing Statement disappears only by a step of a
\* creation request that created that record itself; no other step of any
\* request deletes one.
C21_DeletesOnlyOwnCreations ==
    [][\A o \in Orders :
         /\ (orders[o].exists /\ ~orders'[o].exists)
               => \E r \in Reqs : /\ TookStep(r) /\ req[r].kind \in OwnerCheckingKinds
                                  /\ req[r].oid = o /\ req[r].madeOrder
         /\ (tagihan[o].exists /\ ~tagihan'[o].exists)
               => \E r \in Reqs : /\ TookStep(r) /\ req[r].kind \in OwnerCheckingKinds
                                  /\ req[r].oid = o /\ req[r].madeTagihan]_vars

\* C22: no step of a POST /create-transaction or POST /create-order request,
\* the clean-up after a failed create call apart, changes an Order or a
\* Billing Statement that exists; a request that succeeds for an order whose
\* two records exist therefore leaves every field of them as it was.
C22_ExistingRecordsKept ==
    [][\A r \in Reqs :
         (/\ TookStep(r) /\ req[r].kind \in OwnerCheckingKinds
          /\ req[r].pc \notin {"co_deleteOrder", "co_deleteTagihan"})
           => /\ orders[req[r].oid].exists => orders'[req[r].oid] = orders[req[r].oid]
              /\ tagihan[req[r].oid].exists => tagihan'[req[r].oid] = tagihan[req[r].oid]]_vars

\* a creation request of the owner was answered with success for an order
\* whose Order and Billing Statement a notification had already reconciled
C22_Witness ==
    \E r \in Reqs :
       /\ req[r].kind \in OwnerCheckingKinds /\ req[r].pc = "done"
       /\ req[r].code \in {200, 201}
       /\ orders[req[r].oid].status = "confirmed"
       /\ orders[req[r].oid].paymentStatus = "Berhasil"
       /\ tagihan[req[r].oid].status = "Berhasil"

\* C23: no step of a request, webhook, poll or creation, makes a Booking
\* exist that did not exist before the step.
C23_NoRequestCreatesBooking ==
    [][\A r \in Reqs : TookStep(r) =>
         \A b \in Bookings : ~bookings[b].exists => ~bookings'[b].exists]_vars

\* an order was created with success and a notification for it, verified as
\* 'settlement', failed on the missing Booking: the Booking is still absent
C23_Witness ==
    \E r, q \in Reqs :
       /\ req[q].kind \in OwnerCheckingKinds /\ req[q].pc = "done"
       /\ req[q].code \in {200, 201}
       /\ req[r].kind \in WebhookKinds /\ req[r].pc = "done" /\ req[r].code = 500
       /\ req[r].st = "settlement" /\ req[r].oid = req[q].oid
       /\ transactions[req[r].oid].exists /\ orders[req[r].oid].exists
       /\ tagihan[req[r].oid].exists
       /\ ~bookings[orders[req[r].oid].bookingId].exists

\* C24: whenever a step of POST /create-transaction, POST /create-order or
\* POST /create writes the Transaction, the Transaction then holds a token.
C24_WrittenTransactionHasToken ==
    [][\A r \in Reqs :
         (/\ TookStep(r) /\ req[r].kind \in {"create-transaction", "create-order", "create"}
          /\ transactions'[req[r].oid] # transactions[req[r].oid])
           => /\ transactions'[req[r].oid].exists
              /\ transactions'[req[r].oid].snap_token # NoToken]_vars

\* C25: a step that makes an Order, a Billing Statement or a Transaction
\* exist leaves the new record with status 'pending'.
C25_CreatedPending ==
    [][\A o \in Orders :
         /\ (~orders[o].exists /\ orders'[o].exists) => orders'[o].status = "pending"
         /\ (~tagihan[o].exists /\ tagihan'[o].exists) => tagihan'[o].status = "pending"
         /\ (~transactions[o].exists /\ transactions'[o].exists)
               => transactions'[o].status = "pending"]_vars

\* a creation request has just been answered 201 or 200 and the three
\* records it created are there
C25_Witness ==
    \E r \in Reqs :
       /\ req[r].kind \in OwnerCheckingKinds /\ req[r].pc = "done"
       /\ req[r].code \in {200, 201}
       /\ \A q \in Reqs \ {r} : req[q].pc = "idle"
       /\ orders[req[r].oid].exists /\ tagihan[req[r].oid].exists
       /\ transactions[req[r].oid].exists
       /\ transactions[req[r].oid].snap_token # NoToken

\* the triple a reconciliation with provider status 'pending' stores
PendingTriple == [status |-> "pending", paymentStatus |-> "unpaid", tagihanStatus |-> "unpaid"]

\* request q was a reconciliation with provider status 'pending' that was
\* answered with success
ReconciledPending(q) ==
    /\ req[q].pc = "done" /\ req[q].code = 200
    /\ \/ req[q].kind = "notification" /\ req[q].st = "pending"
       \/ req[q].kind = "check-status" /\ ~req[q].isLocalStatus
                                       /\ Triple(req[q]) = PendingTriple

\* r commits a reconciliation with provider status 'expire' on four records
\* that an earlier reconciliation with 'pending' left pending
ExpireAfterPending(r) ==
    /\ Commits(r) /\ req[r].st = "expire"
    /\ \E q \in Reqs \ {r} : ReconciledPending(q)
    /\ Triple(transactions[req[r].oid]) = PendingTriple
    /\ Triple(bookings[req[r].bid]) = PendingTriple
    /\ orders[req[r].oid].status = "pending" /\ tagihan[req[r].oid].status = "unpaid"

\* C26 as stated: 'pending' and later 'expire' end with status 'cancelled'
\* and paymentStatus 'failed' on the records: on every record that has a
\* status field the status is 'cancelled'.
C26_CancelledOnAllRecords ==
    [][\A r \in Reqs :
         ExpireAfterPending(r) =>
           /\ transactions'[req[r].oid].status = "cancelled"
           /\ transactions'[req[r].oid].paymentStatus = "failed"
           /\ orders'[req[r].oid].status = "cancelled"
           /\ orders'[req[r].oid].paymentStatus = "failed"
           /\ bookings'[req[r].bid].status = "cancelled"
           /\ bookings'[req[r].bid].paymentStatus = "failed"
           /\ tagihan'[req[r].oid].status = "cancelled"]_vars

\* C26 amended: 'pending' and later 'expire' end with status 'cancelled' and
\* paymentStatus 'failed' on the Transaction, the Order and the Booking, and
\* with status 'failed' on the Billing Statement.
C26_CancelledWhereStored ==
    [][\A r \in Reqs :
         ExpireAfterPending(r) =>
           /\ transactions'[req[r].oid].status = "cancelled"
           /\ transactions'[req[r].oid].paymentStatus = "failed"
           /\ orders'[req[r].oid].status = "cancelled"
           /\ orders'[req[r].oid].paymentStatus = "failed"
           /\ bookings'[req[r].bid].status = "cancelled"
           /\ bookings'[req[r].bid].paymentStatus = "failed"
           /\ tagihan'[req[r].oid].status = "failed"]_vars

\* a reconciliation with 'pending' and, after it, a notification with
\* 'expire' were both answered with success and the order is cancelled
C26_Witness ==
    \E r, q \in Reqs :
       /\ q < r /\ ReconciledPending(q)
       /\ req[r].kind = "notification" /\ req[r].pc = "done" /\ req[r].code = 200
       /\ req[r].st = "expire" /\ req[r].oid = req[q].oid
       /\ transactions[req[r].oid].status = "cancelled"
       /\ transactions[req[r].oid].paymentStatus = "failed"
       /\ tagihan[req[r].oid].status = "failed"

\* the four records of order o carry triple m: the Transaction and the
\* Booking all of it, the Order its status and paymentStatus, the Billing
\* Statement its tagihanStatus (in the field status)
Carry(o, b, m) ==
    /\ Triple(transactions[o]) = m
    /\ Triple(bookings[b]) = m
    /\ orders[o].status = m.status /\ orders[o].paymentStatus = m.paymentStatus
    /\ tagihan[o].status = m.tagihanStatus

\* the same of the records after the step
CarryAfter(o, b, m) ==
    /\ Triple(transactions'[o]) = m
    /\ Triple(bookings'[b]) = m
    /\ orders'[o].status = m.status /\ orders'[o].paymentStatus = m.paymentStatus
    /\ tagihan'[o].status = m.tagihanStatus

\* r commits a mapped status while a request of the other ingestion path for
\* the same order is in the server or has been answered, and the records
\* hold a triple other than r's
CommitsOverOther(r) ==
    /\ Commits(r) /\ req[r].st \in RecognizedStatuses
    /\ \E q \in Reqs \ {r} : /\ req[q].kind \in ReconKinds /\ req[q].kind # req[r].kind
                              /\ req[q].oid = req[r].oid /\ req[q].pc # "idle"
    /\ Triple(transactions[req[r].oid]) # StoredTable(req[r].st)

C28_BothPathsWriteTheSame ==
    [][\A r \in Reqs :
         (/\ TookStep(r) /\ req[r].kind \in ReconKinds
          /\ transactions[req[r].oid].snap_token # NoToken)
           => IF req[r].pc \in {"nf_commit", "cs_commit"}
                 /\ BatchCanCommit(req[r].oid, req[r].bid)
              THEN LET t == transactions[req[r].oid]
                   IN BatchCommit(req[r].oid, req[r].bid,
                                  MapNotification(req[r].st, t.status, t.paymentStatus,
                                                  t.tagihanStatus))
              ELSE UNCHANGED store]_vars

\* a notification with 'pending' was answered with success and, after it, a
\* poll that obtained 'capture' has committed: the records are confirmed
C28_Witness ==
    \E r, q \in Reqs :
       /\ req[q].kind = "notification" /\ req[q].pc = "done" /\ req[q].code = 200
       /\ req[q].st = "pending"
       /\ At(r, "check-status", "cs_read") /\ req[r].st = "capture"
       /\ req[r].oid = req[q].oid
       /\ Carry(req[r].oid, req[r].bid, StoredTable("capture"))

\* a poll the limiter passed on to the handler of GET /check-status
ReachedReconciliation(q) == q.kind = "check-status" /\ q.pc # "idle" /\ q.code # 429

\* request r arrives at GET /check-status in this step
PollArrives(r) == req[r].pc = "idle" /\ req'[r].kind = "check-status"

\* the limiter turned r away and nothing else happened
RejectedUntouched(r) ==
    /\ req'[r].pc = "done" /\ req'[r].code = 429
    /\ UNCHANGED <<store, provider>>

\* C29 as stated: a poll of a caller (the user of its token) who already has
\* a poll of the same one-second window that reached the reconciliation
\* logic is rejected, with no provider call and no record write
C29_OnePollPerCaller ==
    [][\A r, q \in Reqs :
         (/\ PollArrives(r) /\ q # r /\ ReachedReconciliation(req[q])
          /\ req[q].uid = req'[r].uid /\ req[q].at = now)
           => RejectedUntouched(r)]_vars

\* C29 amended: a poll from an address (req.ip) that already has a poll of the
\* same one-second window that reached the reconciliation logic is rejected
\* with 429, with no provider call and no record write
C29_OnePollPerAddress ==
    [][\A r, q \in Reqs :
         (/\ PollArrives(r) /\ q # r /\ ReachedReconciliation(req[q])
          /\ req[q].ip = req'[r].ip /\ req[q].at = now)
           => RejectedUntouched(r)]_vars

\* a poll was rejected in the window in which a poll of the same address
\* went through and reconciled the records
C29_Witness ==
    \E r, q \in Reqs :
       /\ req[r].kind = "check-status" /\ req[r].code = 429
       /\ ReachedReconciliation(req[q]) /\ req[q].code = 200
       /\ req[q].ip = req[r].ip /\ req[q].at = req[r].at
\* C30: every answer is an envelope with a boolean success field, true with a
\* success status and false with a failure status; this covers the 401 of
\* verifyToken and the answers of the forwarder /api/notification/midtrans
C30_EveryAnswerIsEnvelope ==
    \A r \in Reqs :
       req[r].pc = "done"
         => /\ req[r].success \in {"true", "false"}
            /\ req[r].success = "true" <=> req[r].code \in 200..299
\* C31: a POST /create-transaction whose body has bookingId, amount and
\* customer_details is answered with success, and the answer's data names the
\* order (order_id) and the redirect URL (redirect_url)
C31_TestOrderSucceeds ==
    \A r \in Reqs :
       (/\ req[r].kind = "create-transaction" /\ req[r].pc = "done"
        /\ {"bookingId", "amount", "customer_details"} \subseteq req[r].given)
         => /\ req[r].success = "true"
            /\ {"order_id", "redirect_url"} \subseteq req[r].data
\* C33: POST /create-transaction goes on to the provider's create call only
\* after a status lookup that answered 404; the provider answers 404 only for
\* an order it does not know, so a handler that leaves the lookup for the
\* create call while the provider holds the order has done so after a lookup
\* that failed for another reason
C33_CreateOnlyAfterNotFound ==
    [][\A r \in Reqs :
         (At(r, "create-transaction", "ct_status") /\ req'[r].pc = "ct_create")
           => midtrans[req[r].oid] = "none"]_vars
\* C32: after the POST /create-transaction of CtCaller has succeeded (the
\* state SpecAfterCt starts in), every GET /order of that caller and every
\* GET /check-status for the order is answered with success, whatever the
\* provider holds and answers and whether or not the Booking exists
C32_ReadsAfterCreateSucceed ==
    [][\A r \in Reqs :
         (/\ req[r].kind \in {"order", "check-status"}
          /\ req[r].pc # "done" /\ req'[r].pc = "done"
          /\ req[r].kind = "order" => req[r].uid = CtCaller)
           => req'[r].code = 200 /\ req'[r].success = "true"]_vars
\* C34: a poll that obtained a provider status and whose batch could not
\* commit (a record of the four is missing) reports the stored status,
\* paymentStatus and billing status of the Transaction, not the mapped ones
C34_FailedCommitReportsStored ==
    [][\A r \in Reqs :
         (/\ At(r, "check-status", "cs_read") /\ req'[r].pc = "done"
          /\ req[r].st # Undef
          /\ ~BatchCanCommit(req[r].oid, req[r].bid))
           => LET t == transactions[req[r].oid]
              IN /\ req'[r].status = t.status
                 /\ req'[r].paymentStatus = t.paymentStatus
                 /\ req'[r].tagihanStatus = t.tagihanStatus]_vars
\* C37: a PATCH /bookings/:id/status that is answered 400, 403 or 404 has
\* left the Booking as it was; the handler answers these in the step of its
\* first await, so that step is all it did
C37_RefusedPatchWritesNothing ==
    [][\A r \in Reqs :
         (/\ req[r].kind = "bookings/status" /\ req[r].pc # "done"
          /\ req'[r].pc = "done" /\ req'[r].code \in {400, 403, 404})
           => /\ req[r].pc = "pb_getBooking"
              /\ UNCHANGED store]_vars

\* a body with an accepted status and a refused paymentStatus was answered
\* 400 by the Booking's owner
C37_Witness ==
    \E r \in Reqs :
       /\ req[r].kind = "bookings/status" /\ req[r].pc = "done" /\ req[r].code = 400
       /\ req[r].err = "Invalid payment status"
       /\ req[r].status \in PatchStatuses
       /\ \E b \in Bookings : bookings[b].exists
\* order o has been reconciled: a notification for it with one of the six
\* mapped statuses was acknowledged
Reconciled(o) ==
    \E q \in Reqs : /\ req[q].kind = "notification" /\ req[q].pc = "done"
                    /\ req[q].code = 200 /\ req[q].oid = o
                    /\ req[q].st \in RecognizedStatuses

\* C35: whenever no request is in flight, the Order, the Transaction and the
\* Booking of an order that has been reconciled carry the same status and the
\* same paymentStatus, whatever endpoints were called since
C35_RecordsAgreeAtRest ==
    \A o \in Orders :
       (InFlight = {} /\ Reconciled(o))
         => LET b == bookings[orders[o].bookingId]
            IN /\ orders[o].status = transactions[o].status
               /\ b.status = transactions[o].status
               /\ orders[o].paymentStatus = transactions[o].paymentStatus
               /\ b.paymentStatus = transactions[o].paymentStatus
\* the four records of every order exist
AllFourExist == \A o \in Orders : BatchCanCommit(o, orders[o].bookingId)

\* the notification in slot r has been acknowledged with success and the
\* records carry the triple of its status
AcknowledgedWithTriple(r) ==
    /\ req[r].kind = "notification" /\ req[r].pc = "done" /\ req[r].code = 200
    /\ req[r].st \in RecognizedStatuses
         => Carry(req[r].oid, orders[req[r].oid].bookingId, StoredTable(req[r].st))

\* C36: a notification the provider delivers again until it is acknowledged
\* with success is, once the four records exist for good, eventually
\* acknowledged with success, and the records then carry its mapped triple
C36_EventuallyAcknowledged ==
    \A r \in Reqs :
       (<>[]AllFourExist /\ <>(req[r].kind = "notification"))
         => <>AcknowledgedWithTriple(r)
====
